---------------------------- MODULE Spec2Model ----------------------------
(***************************************************************************)
(* A model of the `cadd` crate: checked / saturating integer conversions   *)
(* (src/src/convert.rs, src/src/convert_impls.rs) and checked arithmetic   *)
(* (src/src/ops_impls.rs).                                                 *)
(*                                                                         *)
(* Every entry point of the crate is a pure function of its operands, so   *)
(* the state machine is a caller: Init draws the build configuration       *)
(* (target_pointer_width) and the operands the caller holds, and each      *)
(* action is one call of one entry point on those operands, recording the  *)
(* call and the Result it returned.                                        *)
(*                                                                         *)
(* Two more specifications share the variables: SpecError builds an Error  *)
(* (src/src/error.rs) and renders it; SpecBacktrace runs the threads of a  *)
(* process through backtrace_enabled (src/src/tests.rs), one atomic        *)
(* operation or environment read per step.                                 *)
(*                                                                         *)
(* TLC integers are 32 bits wide, so the bit widths 8/16/32/64/128 are     *)
(* scaled (ScaledBits) to 8/10/12/14/15 bits.  The scaling keeps the order *)
(* of the widths, two's complement ranges and wrap-around of `as`, and     *)
(* makes every sum and product of two operands exact in the model.         *)
(***************************************************************************)
EXTENDS Integers, Sequences, FiniteSets, TLC

VARIABLES
    ptr_width,  \* cfg(target_pointer_width): 16, 32 or 64
    src,        \* the type of the first operand the caller holds
    a,          \* the first operand
    rhs,        \* the type of the second operand ("none": one operand)
    b,          \* the second operand (0 when the caller holds only one)
    pc,         \* "ready": nothing called yet; "done": `call` has returned
    call,       \* the entry point that was called, with its types
    ret,        \* the Result / value the call returned
    origin,     \* round trips: the value the first conversion started from
    error,      \* the Error built by Error::new
    shown,      \* the string passed to Error::new and the last rendering
    env,        \* the environment variables of the process
    ENABLED_cell, \* static ENABLED: AtomicU8 of backtrace_enabled
    thread      \* per thread: its position in backtrace_enabled, its locals

vars ==
    <<ptr_width, src, a, rhs, b, pc, call, ret, origin, error, shown, env,
      ENABLED_cell, thread>>

\* the variables of the caller of conversions and operations, of the error
\* and of the backtrace flag
op_vars == <<ptr_width, src, a, rhs, b, pc, call, ret, origin>>

error_vars == <<error, shown>>

backtrace_vars == <<env, ENABLED_cell, thread>>

(***************************************************************************)
(* Bounds of the model.                                                    *)
(***************************************************************************)
\* operands are drawn within Near of every boundary (MIN, MAX of every
\* integer type, and 0)
Near == 1

\* the threads of the process that call backtrace_enabled, and the calls
\* each of them makes
NThreads == 2

MaxCalls == 2

\* the longest slice a caller converts to an array
MaxLen == 34

(***************************************************************************)
(* Integer types.                                                          *)
(***************************************************************************)
Unsigned == {"u8", "u16", "u32", "u64", "u128", "usize"}

SignedKinds == {"i8", "i16", "i32", "i64", "i128", "isize"}

Kinds == Unsigned \cup SignedKinds

Signed(k) == k \in SignedKinds

\* the bit width of a primitive integer type; usize / isize take the
\* pointer width of the build target
WidthAt(k, pw) ==
    CASE k \in {"u8", "i8"}       -> 8
      [] k \in {"u16", "i16"}     -> 16
      [] k \in {"u32", "i32"}     -> 32
      [] k \in {"u64", "i64"}     -> 64
      [] k \in {"u128", "i128"}   -> 128
      [] k \in {"usize", "isize"} -> pw

Width(k) == WidthAt(k, ptr_width)

\* the number of bits the model gives to a type of real width w
ScaledBits(w) ==
    CASE w = 8   -> 8
      [] w = 16  -> 10
      [] w = 32  -> 12
      [] w = 64  -> 14
      [] w = 128 -> 15

Bits(k) == ScaledBits(Width(k))

\* T::MIN and T::MAX
MIN(k) == IF Signed(k) THEN -(2 ^ (Bits(k) - 1)) ELSE 0

MAX(k) == IF Signed(k) THEN 2 ^ (Bits(k) - 1) - 1 ELSE 2 ^ Bits(k) - 1

InRange(v, k) == MIN(k) <= v /\ v <= MAX(k)

\* `v as k`: an integer-to-integer cast keeps the low Bits(k) bits and
\* reinterprets them in k (two's complement)
as_cast(v, k) ==
    IF Signed(k)
    THEN ((v + 2 ^ (Bits(k) - 1)) % (2 ^ Bits(k))) - 2 ^ (Bits(k) - 1)
    ELSE v % (2 ^ Bits(k))

\* core::num::NonZero<k>
NonZero(k) == "NonZero<" \o k \o ">"

NonZeroKinds == {NonZero(k) : k \in Kinds}

\* the integer type a NonZero wraps (NonZero::get); an integer type is
\* its own
get(k) == IF k \in Kinds THEN k ELSE CHOOSE i \in Kinds : NonZero(i) = k

\* core::any::type_name::<T>(): the name of a primitive, the full path of
\* NonZero
type_name(k) == IF k \in Kinds THEN k ELSE "core::num::nonzero::" \o k

\* the signed type of the same width as an unsigned one, and back
Counterpart(k) ==
    CASE k = "u8" -> "i8" [] k = "u16" -> "i16" [] k = "u32" -> "i32"
      [] k = "u64" -> "i64" [] k = "u128" -> "i128" [] k = "usize" -> "isize"
      [] k = "i8" -> "u8" [] k = "i16" -> "u16" [] k = "i32" -> "u32"
      [] k = "i64" -> "u64" [] k = "i128" -> "u128" [] k = "isize" -> "usize"

\* the {:?} / {} rendering of an integer: its decimal digits, with a
\* leading minus sign when negative
Debug(v) == ToString(v)

(***************************************************************************)
(* Results.                                                                *)
(***************************************************************************)
Ok(v) == [ok |-> TRUE, val |-> v]

\* Err(crate::Error::new(message))
Err(m) == [ok |-> FALSE, msg |-> m]

\* a call that cannot fail returns the bare value
Value(v) == [val |-> v]

None == [some |-> FALSE]

Some(v) == [some |-> TRUE, val |-> v]

NoCall == [op |-> "none"]

NoValue == [kind |-> "none"]

StartsWith(s, p) == Len(s) >= Len(p) /\ SubSeq(s, 1, Len(p)) = p

(***************************************************************************)
(* The instantiations of the four conversion macros.                       *)
(***************************************************************************)
Relationships == {"unbounded", "lower_bounded", "upper_bounded", "both_bounded"}

\* mac!(source => targets): one impl for each <<source, target>>
inst(source, targets) == {<<source, t>> : t \in targets}

\* a rev! that leaves the direction as written
rev_as_written(source, targets) == {<<source, t>> : t \in targets}

\* rev!(mac, source => targets) expands to mac!(target => source)
rev(source, targets) == {<<t, source>> : t \in targets}

fixed_width_impls ==
    [unbounded |-> {},
     upper_bounded |->
        \* unsigned integer -> unsigned integer
        inst("u16", {"u8"})
        \cup inst("u32", {"u8", "u16"})
        \cup inst("u64", {"u8", "u16", "u32"})
        \cup inst("u128", {"u8", "u16", "u32", "u64"})
        \* unsigned integer -> signed integer
        \cup inst("u8", {"i8"})
        \cup inst("u16", {"i8", "i16"})
        \cup inst("u32", {"i8", "i16", "i32"})
        \cup inst("u64", {"i8", "i16", "i32", "i64"})
        \cup inst("u128", {"i8", "i16", "i32", "i64", "i128"})
        \* usize/isize
        \cup inst("usize", {"isize"}),
     both_bounded |->
        \* signed integer -> signed integer
        inst("i16", {"i8"})
        \cup inst("i32", {"i8", "i16"})
        \cup inst("i64", {"i8", "i16", "i32"})
        \cup inst("i128", {"i8", "i16", "i32", "i64"})
        \* signed integer -> unsigned integer
        \cup inst("i16", {"u8"})
        \cup inst("i32", {"u8", "u16"})
        \cup inst("i64", {"u8", "u16", "u32"})
        \cup inst("i128", {"u8", "u16", "u32", "u64"}),
     lower_bounded |->
        \* signed integer -> unsigned integer
        inst("i8", {"u8", "u16", "u32", "u64", "u128"})
        \cup inst("i16", {"u16", "u32", "u64", "u128"})
        \cup inst("i32", {"u32", "u64", "u128"})
        \cup inst("i64", {"u64", "u128"})
        \cup inst("i128", {"u128"})
        \* usize/isize
        \cup inst("isize", {"usize"})]

\* #[cfg(target_pointer_width = "16")] mod ptr_try_from_impls
ptr_try_from_impls_16 ==
    [unbounded |->
        inst("usize", {"u16", "u32", "u64", "u128"})
        \cup inst("usize", {"i32", "i64", "i128"})
        \cup inst("isize", {"i16", "i32", "i64", "i128"}),
     upper_bounded |->
        inst("usize", {"u8"})
        \cup inst("usize", {"i8", "i16"})
        \cup rev("usize", {"u32", "u64", "u128"})
        \cup rev("isize", {"u16", "u32", "u64", "u128"}),
     lower_bounded |->
        inst("isize", {"u16", "u32", "u64", "u128"})
        \cup rev("usize", {"i8", "i16"}),
     both_bounded |->
        inst("isize", {"u8"})
        \cup inst("isize", {"i8"})
        \cup rev("usize", {"i32", "i64", "i128"})
        \cup rev("isize", {"i32", "i64", "i128"})]

\* the 32-bit module with the 64-bit module's `rev!(impl_cfrom_unbounded,
\* usize => u32, u64)` line left in place of its own
ptr_try_from_impls_32_stale_rev ==
    [unbounded |->
        inst("usize", {"u32", "u64", "u128"})
        \cup inst("usize", {"i64", "i128"})
        \cup inst("isize", {"i32", "i64", "i128"})
        \cup rev("usize", {"u32", "u64"})
        \cup rev("isize", {"u16"})
        \cup rev("isize", {"i32"}),
     upper_bounded |->
        inst("usize", {"u8", "u16"})
        \cup inst("usize", {"i8", "i16", "i32"})
        \cup rev("usize", {"u128"})
        \cup rev("isize", {"u32", "u64", "u128"}),
     lower_bounded |->
        inst("isize", {"u32", "u64", "u128"})
        \cup rev("usize", {"i8", "i16", "i32"}),
     both_bounded |->
        inst("isize", {"u8", "u16"})
        \cup inst("isize", {"i8", "i16"})
        \cup rev("usize", {"i64", "i128"})
        \cup rev("isize", {"i64", "i128"})]

\* #[cfg(target_pointer_width = "32")] mod ptr_try_from_impls
ptr_try_from_impls_32 ==
    [unbounded |->
        inst("usize", {"u32", "u64", "u128"})
        \cup inst("usize", {"i64", "i128"})
        \cup inst("isize", {"i32", "i64", "i128"})
        \cup rev("usize", {"u32"})
        \cup rev("isize", {"u16"})
        \cup rev("isize", {"i32"}),
     upper_bounded |->
        inst("usize", {"u8", "u16"})
        \cup inst("usize", {"i8", "i16", "i32"})
        \cup rev("usize", {"u64", "u128"})
        \cup rev("isize", {"u32", "u64", "u128"}),
     lower_bounded |->
        inst("isize", {"u32", "u64", "u128"})
        \cup rev("usize", {"i8", "i16", "i32"}),
     both_bounded |->
        inst("isize", {"u8", "u16"})
        \cup inst("isize", {"i8", "i16"})
        \cup rev("usize", {"i64", "i128"})
        \cup rev("isize", {"i64", "i128"})]

\* the 64-bit module with usize => u32 instantiated by two macros
ptr_try_from_impls_64_twice ==
    [unbounded |->
        inst("usize", {"u32", "u64", "u128"})
        \cup inst("usize", {"i128"})
        \cup inst("isize", {"i64", "i128"})
        \cup rev("usize", {"u32", "u64"})
        \cup rev("isize", {"u16", "u32"})
        \cup rev("isize", {"i32", "i64"}),
     upper_bounded |->
        inst("usize", {"u8", "u16", "u32"})
        \cup inst("usize", {"i8", "i16", "i32", "i64"})
        \cup rev("usize", {"u128"})
        \cup rev("isize", {"u64", "u128"}),
     lower_bounded |->
        inst("isize", {"u64", "u128"})
        \cup rev("usize", {"i8", "i16", "i32", "i64"}),
     both_bounded |->
        inst("isize", {"u8", "u16", "u32"})
        \cup inst("isize", {"i8", "i16", "i32"})
        \cup rev("usize", {"i128"})
        \cup rev("isize", {"i128"})]

\* #[cfg(target_pointer_width = "64")] mod ptr_try_from_impls
ptr_try_from_impls_64 ==
    [unbounded |->
        inst("usize", {"u64", "u128"})
        \cup inst("usize", {"i128"})
        \cup inst("isize", {"i64", "i128"})
        \cup rev("usize", {"u32", "u64"})
        \cup rev("isize", {"u16", "u32"})
        \cup rev("isize", {"i32", "i64"}),
     upper_bounded |->
        inst("usize", {"u8", "u16", "u32"})
        \cup inst("usize", {"i8", "i16", "i32", "i64"})
        \cup rev("usize", {"u128"})
        \cup rev("isize", {"u64", "u128"}),
     lower_bounded |->
        inst("isize", {"u64", "u128"})
        \cup rev("usize", {"i8", "i16", "i32", "i64"}),
     both_bounded |->
        inst("isize", {"u8", "u16", "u32"})
        \cup inst("isize", {"i8", "i16", "i32"})
        \cup rev("usize", {"i128"})
        \cup rev("isize", {"i128"})]

\* the module of 64-bit targets selected on every target
ptr_try_from_impls_always_64 == ptr_try_from_impls_64

\* the ptr_try_from_impls module the build selects
ptr_try_from_impls ==
    CASE ptr_width = 16 -> ptr_try_from_impls_16
      [] ptr_width = 32 -> ptr_try_from_impls_32
      [] ptr_width = 64 -> ptr_try_from_impls_64

\* the <<source, target>> pairs macro `rel` is instantiated for in this build
Impls(rel) == fixed_width_impls[rel] \cup ptr_try_from_impls[rel]

\* the macros instantiated for <<source, target>>
RelsOf(s, t) == {r \in Relationships : <<s, t>> \in Impls(r)}

(***************************************************************************)
(* The bodies the four macros generate.                                    *)
(***************************************************************************)
impl_cfrom_unbounded_cfrom(s, t, u) == Ok(as_cast(u, t))

impl_cfrom_unbounded_saturating_from(s, t, u) == as_cast(u, t)

\* a lower bound check that also rejects zero
impl_cfrom_lower_bounded_cfrom_strict(s, t, u) ==
    IF u > 0
    THEN Ok(as_cast(u, t))
    ELSE Err("cannot convert value " \o Debug(u) \o " from " \o type_name(s)
            \o " to " \o type_name(t) \o ": value is out of bounds")

impl_cfrom_lower_bounded_cfrom(s, t, u) ==
    IF u >= 0
    THEN Ok(as_cast(u, t))
    ELSE Err("cannot convert value " \o Debug(u) \o " from " \o type_name(s)
            \o " to " \o type_name(t) \o ": value is out of bounds")

impl_cfrom_lower_bounded_saturating_from(s, t, u) ==
    IF u >= 0 THEN as_cast(u, t) ELSE 0

\* an upper bound check that compares with >= instead of >
impl_cfrom_upper_bounded_cfrom_off_by_one(s, t, u) ==
    IF u >= as_cast(MAX(t), s)
    THEN Err("cannot convert value " \o Debug(u) \o " from " \o type_name(s)
            \o " to " \o type_name(t) \o ": value is out of bounds")
    ELSE Ok(as_cast(u, t))

impl_cfrom_upper_bounded_cfrom(s, t, u) ==
    IF u > as_cast(MAX(t), s)
    THEN Err("cannot convert value " \o Debug(u) \o " from " \o type_name(s)
            \o " to " \o type_name(t) \o ": value is out of bounds")
    ELSE Ok(as_cast(u, t))

impl_cfrom_upper_bounded_saturating_from(s, t, u) ==
    IF u > as_cast(MAX(t), s) THEN MAX(t) ELSE as_cast(u, t)

impl_cfrom_both_bounded_cfrom(s, t, u) ==
    LET min == as_cast(MIN(t), s)
        max == as_cast(MAX(t), s)
    IN  IF u < min \/ u > max
        THEN Err("cannot convert value " \o Debug(u) \o " from " \o type_name(s)
            \o " to " \o type_name(t) \o ": value is out of bounds")
        ELSE Ok(as_cast(u, t))

\* a saturation that forgets the lower bound
impl_cfrom_both_bounded_saturating_from_no_min(s, t, u) ==
    LET max == as_cast(MAX(t), s)
    IN  IF u > max THEN MAX(t) ELSE as_cast(u, t)

impl_cfrom_both_bounded_saturating_from(s, t, u) ==
    LET min == as_cast(MIN(t), s)
        max == as_cast(MAX(t), s)
    IN  IF u < min THEN MIN(t)
        ELSE IF u > max THEN MAX(t)
        ELSE as_cast(u, t)

\* <t as Cfrom<s>>::cfrom(u), as generated by macro `rel`
cfrom_by(rel, s, t, u) ==
    CASE rel = "unbounded"     -> impl_cfrom_unbounded_cfrom(s, t, u)
      [] rel = "lower_bounded" -> impl_cfrom_lower_bounded_cfrom(s, t, u)
      [] rel = "upper_bounded" -> impl_cfrom_upper_bounded_cfrom(s, t, u)
      [] rel = "both_bounded"  -> impl_cfrom_both_bounded_cfrom(s, t, u)

\* <t as SaturatingFrom<s>>::saturating_from(u), as generated by macro `rel`
saturating_from_by(rel, s, t, u) ==
    CASE rel = "unbounded"     -> impl_cfrom_unbounded_saturating_from(s, t, u)
      [] rel = "lower_bounded" -> impl_cfrom_lower_bounded_saturating_from(s, t, u)
      [] rel = "upper_bounded" -> impl_cfrom_upper_bounded_saturating_from(s, t, u)
      [] rel = "both_bounded"  -> impl_cfrom_both_bounded_saturating_from(s, t, u)

(***************************************************************************)
(* Conversions that delegate to TryFrom, and to_non_zero.                  *)
(***************************************************************************)
\* core::num::NonZero::new
NonZero_new(v) == IF v = 0 THEN None ELSE Some(v)

\* impl_nonzero_int_cfrom_nonzero_int!($source => $($target),+)
nonzero_int(source, targets) == {<<source, target>> : target \in targets}

\* the <<A, B>> with an impl_cfrom! for (NonZero<A>, NonZero<B>)
nonzero_int_cfrom_nonzero_int ==
    \* unsigned -> unsigned
    nonzero_int("u16", {"u8"})
    \cup nonzero_int("u32", {"u8", "u16", "usize"})
    \cup nonzero_int("u64", {"u8", "u16", "u32", "usize"})
    \cup nonzero_int("u128", {"u8", "u16", "u32", "u64", "usize"})
    \cup nonzero_int("usize", {"u8", "u16", "u32", "u64", "u128"})
    \* signed -> signed
    \cup nonzero_int("i16", {"i8"})
    \cup nonzero_int("i32", {"i8", "i16", "isize"})
    \cup nonzero_int("i64", {"i8", "i16", "i32", "isize"})
    \cup nonzero_int("i128", {"i8", "i16", "i32", "i64", "isize"})
    \cup nonzero_int("isize", {"i8", "i16", "i32", "i64", "i128"})
    \* unsigned -> signed
    \cup nonzero_int("u8", {"i8"})
    \cup nonzero_int("u16", {"i8", "i16", "isize"})
    \cup nonzero_int("u32", {"i8", "i16", "i32", "isize"})
    \cup nonzero_int("u64", {"i8", "i16", "i32", "i64", "isize"})
    \cup nonzero_int("u128", {"i8", "i16", "i32", "i64", "i128", "isize"})
    \cup nonzero_int("usize", {"i8", "i16", "i32", "i64", "i128", "isize"})
    \* signed -> unsigned
    \cup UNION {nonzero_int(source, Unsigned) : source \in SignedKinds}

\* a TryFrom between NonZero types that casts the value with `as`
try_from_wrapping(s, t, from) ==
    IF s \in Kinds THEN NonZero_new(from) ELSE Some(as_cast(from, get(t)))

\* TryFrom::try_from: of an integer to its NonZero, NonZero::new; of a
\* NonZero to another NonZero, the conversion of the integer it wraps
try_from(s, t, from) ==
    IF s \in Kinds THEN NonZero_new(from)
    ELSE IF InRange(from, get(t)) THEN Some(from) ELSE None

\* an impl_cfrom! that names the types in the wrong order
impl_cfrom_swapped(s, t, from) ==
    LET r == try_from(s, t, from)
    IN  IF r.some
        THEN Ok(r.val)
        ELSE Err("cannot convert value " \o Debug(from) \o " from "
                    \o type_name(t) \o " to " \o type_name(s)
                    \o ": value is out of bounds")

\* impl_cfrom!((s, t),): try_from(from).map_err(|_| Error::new(format!(..)))
impl_cfrom(s, t, from) ==
    LET r == try_from(s, t, from)
    IN  IF r.some
        THEN Ok(r.val)
        ELSE Err("cannot convert value " \o Debug(from) \o " from "
                    \o type_name(s) \o " to " \o type_name(t)
                    \o ": value is out of bounds")

\* a to_non_zero that lets zero through
to_non_zero_unchecked(k, self) == Ok(self)

\* impl_to_non_zero!: NonZero::new(self).ok_or_else(..)
to_non_zero(k, self) ==
    LET r == NonZero_new(self)
    IN  IF r.some THEN Ok(r.val) ELSE Err("unexpected zero value")

\* the free function non_zero
non_zero(k, v) == to_non_zero(k, v)

(***************************************************************************)
(* The primitives of core the checked operations are built on.             *)
(***************************************************************************)
Abs(v) == IF v < 0 THEN -v ELSE v

\* x / y and x % y of Rust: the quotient truncates towards zero and the
\* remainder takes the sign of the dividend
TruncDiv(x, y) ==
    IF (x < 0) = (y < 0) THEN Abs(x) \div Abs(y) ELSE -(Abs(x) \div Abs(y))

TruncRem(x, y) == x - y * TruncDiv(x, y)

\* overflowing_add / overflowing_sub / overflowing_mul: the wrapped result
\* and whether it differs from the exact one
overflowing(k, exact) ==
    [res |-> as_cast(exact, k), overflowed |-> as_cast(exact, k) # exact]

checked_add(k, x, y) ==
    LET r == overflowing(k, x + y)
    IN  IF r.overflowed THEN None ELSE Some(r.res)

checked_sub(k, x, y) ==
    LET r == overflowing(k, x - y)
    IN  IF r.overflowed THEN None ELSE Some(r.res)

checked_mul(k, x, y) ==
    LET r == overflowing(k, x * y)
    IN  IF r.overflowed THEN None ELSE Some(r.res)

\* uN::checked_add_signed: overflowing_add(rhs as Self), the flag flipped
\* when rhs < 0
checked_add_signed(k, x, y) ==
    LET r == overflowing(k, x + as_cast(y, k))
    IN  IF r.overflowed # (y < 0) THEN None ELSE Some(r.res)

\* iN::checked_add_unsigned: overflowing_add(rhs as Self), the flag flipped
\* when the cast rhs is negative
checked_add_unsigned(k, x, y) ==
    LET r == overflowing(k, x + as_cast(y, k))
    IN  IF r.overflowed # (as_cast(y, k) < 0) THEN None ELSE Some(r.res)

\* iN::checked_sub_unsigned
checked_sub_unsigned(k, x, y) ==
    LET r == overflowing(k, x - as_cast(y, k))
    IN  IF r.overflowed # (as_cast(y, k) < 0) THEN None ELSE Some(r.res)

\* the division family fails when rhs == 0 or, for a signed type, when
\* self == MIN and rhs == -1
div_fails(k, x, y) == y = 0 \/ (Signed(k) /\ x = MIN(k) /\ y = -1)

checked_div(k, x, y) ==
    IF div_fails(k, x, y) THEN None ELSE Some(TruncDiv(x, y))

\* Duration::checked_div(rhs: u32) of a Duration below one microsecond,
\* held as its number of nanoseconds (its seconds are 0): None when the
\* divisor is 0
Duration_checked_div(self, other) ==
    IF other # 0
    THEN LET nanos == self \div other
             extra_nanos == self % other
         IN  Some(nanos + (extra_nanos \div other))
    ELSE None

checked_div_euclid(k, x, y) ==
    IF div_fails(k, x, y) THEN None
    ELSE LET q == TruncDiv(x, y)
         IN  IF TruncRem(x, y) < 0
             THEN Some(IF y > 0 THEN q - 1 ELSE q + 1)
             ELSE Some(q)

checked_rem(k, x, y) ==
    IF div_fails(k, x, y) THEN None ELSE Some(TruncRem(x, y))

checked_rem_euclid(k, x, y) ==
    IF div_fails(k, x, y) THEN None
    ELSE LET r == TruncRem(x, y)
         IN  IF r < 0 THEN Some(r + Abs(y)) ELSE Some(r)

\* the loop of ilog: how often r can be divided by base before it drops
\* below base
RECURSIVE ilog_loop(_, _)
ilog_loop(r, base) ==
    IF r >= base THEN 1 + ilog_loop(r \div base, base) ELSE 0

\* checked_ilog: None when self <= 0 or base <= 1
checked_ilog(k, x, base) ==
    IF x <= 0 \/ base <= 1 THEN None ELSE Some(ilog_loop(x, base))

\* checked_shl: None when rhs >= T::BITS; the bits shifted out are dropped
\* a shift that fails when bits of the value are shifted out
checked_shl_exact(k, x, y) ==
    IF y < Bits(k) /\ InRange(x * 2 ^ y, k) THEN Some(x * 2 ^ y) ELSE None

checked_shl(k, x, y) ==
    IF y < Bits(k) THEN Some(as_cast(x * 2 ^ y, k)) ELSE None

\* checked_shr: None when rhs >= T::BITS; the shift is arithmetic
checked_shr(k, x, y) ==
    IF y < Bits(k) THEN Some(x \div 2 ^ y) ELSE None

\* checked_ilog2 / checked_ilog10: None when self <= 0
checked_ilog2(k, x) == IF x <= 0 THEN None ELSE Some(ilog_loop(x, 2))

checked_ilog10(k, x) == IF x <= 0 THEN None ELSE Some(ilog_loop(x, 10))

\* the loop of checked_pow: square and multiply, every product checked
RECURSIVE pow_loop(_, _, _, _)
pow_loop(k, base, exp, acc) ==
    LET acc1 == IF exp % 2 = 1 THEN checked_mul(k, acc, base) ELSE Some(acc)
    IN  IF ~acc1.some THEN None
        ELSE IF exp = 1 THEN acc1
        ELSE LET base2 == checked_mul(k, base, base)
             IN  IF ~base2.some THEN None
                 ELSE pow_loop(k, base2.val, exp \div 2, acc1.val)

checked_pow(k, x, exp) == IF exp = 0 THEN Some(1) ELSE pow_loop(k, x, exp, 1)

\* checked_neg (overflowing_neg): of a signed type None for MIN, of an
\* unsigned type None for everything but 0; k is the integer type, also
\* of a NonZero
checked_neg(k, x) ==
    LET r == overflowing(k, -x)
    IN  IF r.overflowed THEN None ELSE Some(r.res)

\* an abs that saturates at MAX where the negation overflows
checked_abs_saturating(k, x) ==
    IF x < 0 THEN Some(IF x = MIN(k) THEN MAX(k) ELSE -x) ELSE Some(x)

\* checked_abs: checked_neg of a negative value
checked_abs(k, x) == IF x < 0 THEN checked_neg(k, x) ELSE Some(x)

\* all bits up to the highest bit of p set
RECURSIVE fill(_)
fill(p) == IF p = 0 THEN 0 ELSE 2 * fill(p \div 2) + 1

one_less_than_next_power_of_two(x) == IF x <= 1 THEN 0 ELSE fill(x - 1)

checked_next_power_of_two(k, x) ==
    checked_add(k, one_less_than_next_power_of_two(x), 1)

\* checked_next_multiple_of of an unsigned type
checked_next_multiple_of(k, x, y) ==
    LET r == checked_rem(k, x, y)
    IN  IF ~r.some THEN None
        ELSE IF r.val = 0 THEN Some(x)
        ELSE checked_add(k, x, y - r.val)

(***************************************************************************)
(* The checked operations generated by impl_binary_ops!.                   *)
(***************************************************************************)
\* format!("<p0>{}<p1>{}<p2>", x, y), with {} or {:?}
format2(p0, x, p1, y, p2) == p0 \o Debug(x) \o p1 \o Debug(y) \o p2

\* impl_binary_op!: self.$source_fn(b).ok_or_else(|| Error::new(message))
impl_binary_op(result, message) ==
    IF result.some THEN Ok(result.val) ELSE Err(message)

\* an addition that wraps instead of failing
cadd_wrapping(k, self, other) == Ok(as_cast(self + other, k))

\* Cadd for (T, T, T)
cadd(k, self, other) ==
    impl_binary_op(checked_add(k, self, other),
                   format2("overflow: ", self, " + ", other, ""))

\* Cadd for (uN, iN, uN)
cadd_signed(k, self, other) ==
    impl_binary_op(checked_add_signed(k, self, other),
                   format2("overflow: ", self, " + ", other, ""))

\* Cadd for (iN, uN, iN)
cadd_unsigned(k, self, other) ==
    impl_binary_op(checked_add_unsigned(k, self, other),
                   format2("overflow: ", self, " + ", other, ""))

\* Csub for (T, T, T)
csub(k, self, other) ==
    impl_binary_op(checked_sub(k, self, other),
                   format2("overflow: ", self, " - ", other, ""))

\* Csub for (iN, uN, iN)
csub_unsigned(k, self, other) ==
    impl_binary_op(checked_sub_unsigned(k, self, other),
                   format2("overflow: ", self, " + ", other, ""))

\* Cmul for (T, T, T)
cmul(k, self, other) ==
    impl_binary_op(checked_mul(k, self, other),
                   format2("overflow: ", self, " * ", other, ""))

\* the error closure of Cdiv with its two branches exchanged
cdiv_err_swapped(x, y) ==
    IF y = 0
    THEN format2("overflow: ", x, " / ", y, "")
    ELSE format2("division by zero: ", x, " / ", y, "")

\* the error closures of the division family
cdiv_err(x, y) ==
    IF y = 0
    THEN format2("division by zero: ", x, " / ", y, "")
    ELSE format2("overflow: ", x, " / ", y, "")

cdiv_euclid_err(x, y) ==
    IF y = 0
    THEN format2("division by zero: div_euclid(", x, ", ", y, ")")
    ELSE format2("overflow: div_euclid(", x, ", ", y, ")")

crem_err(x, y) ==
    IF y = 0
    THEN format2("division by zero: ", x, " % ", y, "")
    ELSE format2("overflow: ", x, " % ", y, "")

crem_euclid_err(x, y) ==
    IF y = 0
    THEN format2("division by zero: rem_euclid(", x, ", ", y, ")")
    ELSE format2("overflow: rem_euclid(", x, ", ", y, ")")

cdiv(k, self, other) ==
    impl_binary_op(checked_div(k, self, other), cdiv_err(self, other))

\* the {:?} rendering of a Duration below one microsecond
Duration_Debug(d) == ToString(d) \o "ns"

\* Cdiv for (Duration, u32, Duration)
cdiv_duration(self, other) ==
    impl_binary_op(Duration_checked_div(self, other),
                   IF other = 0
                   THEN "division by zero: " \o Duration_Debug(self) \o " / "
                            \o Debug(other)
                   ELSE "overflow: " \o Duration_Debug(self) \o " / "
                            \o Debug(other))

cdiv_euclid(k, self, other) ==
    impl_binary_op(checked_div_euclid(k, self, other),
                   cdiv_euclid_err(self, other))

crem(k, self, other) ==
    impl_binary_op(checked_rem(k, self, other), crem_err(self, other))

crem_euclid(k, self, other) ==
    impl_binary_op(checked_rem_euclid(k, self, other),
                   crem_euclid_err(self, other))

\* the error closure of CILog with `b <= 2` for `b < 2`
cilog_err_off_by_one(x, y) ==
    IF y <= 2
    THEN format2("base is less than 2: ilog(", x, ", ", y, ")")
    ELSE format2("number is not positive: ilog(", x, ", ", y, ")")

\* the error closure of CILog
cilog_err(x, y) ==
    IF y < 2
    THEN format2("base is less than 2: ilog(", x, ", ", y, ")")
    ELSE format2("number is not positive: ilog(", x, ", ", y, ")")

\* CILog for (T, T, u32)
cilog(k, self, other) ==
    impl_binary_op(checked_ilog(k, self, other), cilog_err(self, other))

\* a Cshr that reports every failure of checked_shr as an overflow
cshr_as_overflow(k, self, other) ==
    impl_binary_op(checked_shr(k, self, other),
                   format2("overflow: ", self, " >> ", other, ""))

\* Cshl for (T, u32, T)
cshl(k, self, other) ==
    impl_binary_op(checked_shl(k, self, other),
                   format2("shift amount is too large: ", self, " << ", other, ""))

\* Cshr for (T, u32, T)
cshr(k, self, other) ==
    impl_binary_op(checked_shr(k, self, other),
                   format2("shift amount is too large: ", self, " >> ", other, ""))

\* format!($msg, self) of a message with one placeholder
format1(p0, x, p1) == p0 \o Debug(x) \o p1

\* impl_unary_op!: self.$source_fn().ok_or_else(|| Error::new(message))
impl_unary_op(result, message) ==
    IF result.some THEN Ok(result.val) ELSE Err(message)

\* the types impl_unary_ops! implements Cneg for
cneg_impls == Kinds \cup {NonZero(k) : k \in SignedKinds}

\* Cabs implemented for every type Cneg is implemented for
cabs_impls_as_cneg == cneg_impls

\* the types impl_unary_ops! implements Cabs for
cabs_impls == SignedKinds \cup {NonZero(k) : k \in SignedKinds}

\* the types impl_binary_ops! implements CnextMultipleOf for
cnext_multiple_of_impls == Unsigned

\* the types impl_unary_ops! implements CnextPowerOfTwo for
cnext_power_of_two_impls == Unsigned \cup {NonZero(k) : k \in Unsigned}

\* Cneg
cneg(k, self) ==
    impl_unary_op(checked_neg(get(k), self), format1("overflow: -", self, ""))

\* Cabs
cabs(k, self) ==
    impl_unary_op(checked_abs(get(k), self),
                  format1("overflow: abs(", self, ")"))

\* CILog2 and CILog10 for (T, u32)
cilog2(k, self) ==
    impl_unary_op(checked_ilog2(k, self),
                  format1("number is not positive: ilog2(", self, ")"))

cilog10(k, self) ==
    impl_unary_op(checked_ilog10(k, self),
                  format1("number is not positive: ilog10(", self, ")"))

\* Cpow for (T, u32, T)
cpow(k, self, other) ==
    impl_binary_op(checked_pow(k, self, other),
                   format2("overflow: pow(", self, ", ", other, ")"))

\* an error closure that reports every failure as an overflow
cnext_multiple_of_err_overflow_only(x, y) ==
    format2("overflow: next_multiple_of(", x, ", ", y, ")")

\* the error closure of CnextMultipleOf
cnext_multiple_of_err(x, y) ==
    IF y = 0
    THEN format2("multiplier is zero: next_multiple_of(", x, ", ", y, ")")
    ELSE format2("overflow: next_multiple_of(", x, ", ", y, ")")

\* CnextMultipleOf
cnext_multiple_of(k, self, other) ==
    impl_binary_op(checked_next_multiple_of(k, self, other),
                   cnext_multiple_of_err(self, other))

\* CnextPowerOfTwo
cnext_power_of_two(k, self) ==
    impl_unary_op(checked_next_power_of_two(get(k), self),
                  format1("overflow: next_power_of_two(", self, ")"))

(***************************************************************************)
(* The traits of ops.rs: a method, and a free function of the same name.   *)
(***************************************************************************)
\* the two-operand operations implemented for a self of type k and an
\* operand of type r
binary_impls(k, r) ==
    (IF k \in Kinds /\ r = k
     THEN {"cadd", "csub", "cmul", "cdiv", "cdiv_euclid", "crem",
           "crem_euclid", "cilog"}
     ELSE {})
    \cup (IF k \in Unsigned /\ r = Counterpart(k) THEN {"cadd"} ELSE {})
    \cup (IF k \in SignedKinds /\ r = Counterpart(k)
          THEN {"cadd", "csub"} ELSE {})
    \cup (IF k \in Kinds /\ r = "u32" THEN {"cshl", "cshr", "cpow"} ELSE {})
    \cup (IF k \in cnext_multiple_of_impls /\ r = k
          THEN {"cnext_multiple_of"} ELSE {})
    \cup (IF k = "Duration" /\ r = "u32" THEN {"cdiv"} ELSE {})

\* the one-operand operations implemented for a self of type k
unary_impls(k) ==
    (IF k \in Kinds THEN {"cilog2", "cilog10"} ELSE {})
    \cup (IF k \in cneg_impls THEN {"cneg"} ELSE {})
    \cup (IF k \in cabs_impls THEN {"cabs"} ELSE {})
    \cup (IF k \in cnext_power_of_two_impls
          THEN {"cnext_power_of_two"} ELSE {})

\* a.$trait_fn(b): the impl the types of a and b select.  Shifts and
\* powers are tried last: for a u32 self, or an i32 self and its u32
\* counterpart, the operand type alone does not tell them from the rest.
method_binary(op, k, r, x, y) ==
    CASE op = "cadd" ->
            IF r = k THEN cadd(k, x, y)
            ELSE IF Signed(k) THEN cadd_unsigned(k, x, y)
            ELSE cadd_signed(k, x, y)
      [] op = "csub" ->
            IF r = k THEN csub(k, x, y) ELSE csub_unsigned(k, x, y)
      [] op = "cmul" -> cmul(k, x, y)
      [] op = "cdiv" ->
            IF k = "Duration" THEN cdiv_duration(x, y) ELSE cdiv(k, x, y)
      [] op = "cdiv_euclid" -> cdiv_euclid(k, x, y)
      [] op = "crem" -> crem(k, x, y)
      [] op = "crem_euclid" -> crem_euclid(k, x, y)
      [] op = "cilog" -> cilog(k, x, y)
      [] op = "cshl" -> cshl(k, x, y)
      [] op = "cshr" -> cshr(k, x, y)
      [] op = "cpow" -> cpow(k, x, y)
      [] op = "cnext_multiple_of" -> cnext_multiple_of(k, x, y)

\* value.$trait_fn()
method_unary(op, k, x) ==
    CASE op = "cneg" -> cneg(k, x)
      [] op = "cabs" -> cabs(k, x)
      [] op = "cilog2" -> cilog2(k, x)
      [] op = "cilog10" -> cilog10(k, x)
      [] op = "cnext_power_of_two" -> cnext_power_of_two(k, x)

\* a free function that swallows the failure of the method
free_binary_or_default(op, k, r, x, y) ==
    LET res == method_binary(op, k, r, x, y)
    IN  IF res.ok THEN res ELSE Ok(0)

\* pub fn $trait_fn<T1, T2>(a: T1, b: T2) of declare_binary_trait!
free_binary(op, k, r, x, y) == method_binary(op, k, r, x, y)

\* pub fn $trait_fn<T1>(value: T1) of declare_unary_trait!
free_unary(op, k, x) == method_unary(op, k, x)

(***************************************************************************)
(* The Into direction and the IntoType extension of convert.rs.            *)
(***************************************************************************)
\* the types I with `impl Cfrom<s> for I`: the integer types a bounds
\* macro is instantiated for, and the NonZero of an integer type s
cfrom_impls(s) ==
    {t \in Kinds : RelsOf(s, t) # {}}
        \cup (IF s \in Kinds THEN {NonZero(s)} ELSE {})
        \cup {NonZero(p[2]) :
                p \in {q \in nonzero_int_cfrom_nonzero_int : NonZero(q[1]) = s}}

\* the types I with `impl SaturatingFrom<s> for I`
saturating_from_impls(s) == {t \in Kinds : RelsOf(s, t) # {}}

\* the macro that generated the impl for the pair
rel_of(s, t) ==
    IF t \in Kinds THEN CHOOSE rel \in RelsOf(s, t) : TRUE ELSE "try_from"

\* I::cfrom(from)
cfrom(s, t, from) ==
    IF t \in Kinds THEN cfrom_by(rel_of(s, t), s, t, from)
    ELSE impl_cfrom(s, t, from)

\* I::saturating_from(from)
saturating_from(s, t, from) == saturating_from_by(rel_of(s, t), s, t, from)

\* impl<F, I> Cinto<I> for F
cinto(s, t, self) == cfrom(s, t, self)

\* impl<F, I> SaturatingInto<I> for F
saturating_into(s, t, self) == saturating_from(s, t, self)

\* a cinto_type that forwards to the saturating conversion where there is
\* one
cinto_type_saturating(s, t, self) ==
    IF t \in saturating_from_impls(s)
    THEN Ok(saturating_into(s, t, self))
    ELSE cinto(s, t, self)

\* IntoType::cinto_type::<T>
cinto_type(s, t, self) == cinto(s, t, self)

\* IntoType::saturating_into_type::<T>
saturating_into_type(s, t, self) == saturating_into(s, t, self)

(***************************************************************************)
(* error.rs: an Error is a message and the backtrace captured with it.     *)
(***************************************************************************)
NoError == [kind |-> "none"]

\* Error::new(message), where Backtrace::capture() returned `backtrace`
Error_new(m, backtrace) == [message |-> m, backtrace |-> backtrace]

\* Error::message
Error_message(e) == e.message

\* impl Debug for Error
Debug_fmt(e) ==
    IF e.backtrace.status = "Captured"
    THEN e.message \o "\nstack backtrace:\n" \o e.backtrace.frames
    ELSE e.message

\* a Display that writes the message alone
Display_fmt_message_only(e) == e.message

\* impl Display for Error: write!(f, "{:?}", self)
Display_fmt(e) == Debug_fmt(e)

(***************************************************************************)
(* tests.rs: backtrace_enabled and the cell that caches its answer.        *)
(***************************************************************************)
Threads == 1..NThreads

\* env::var(name): None when the variable is unset
env_var(name) == env[name]

\* the arm `Ok(s) => s != "0"` read as `s == "1"`
var_enabled_is_one(s) == s = "1"

\* the arm `Ok(s) => s != "0"`
var_enabled(s) == s # "0"

\* the cell stores the flag without the offset of 1
encode_no_offset(enabled) == IF enabled THEN 1 ELSE 0

\* enabled as u8 + 1
encode(enabled) == (IF enabled THEN 1 ELSE 0) + 1

\* the match on the cell with the arms for 1 and 2 exchanged
cached_inverted(cell) ==
    CASE cell = 0 -> None
      [] cell = 1 -> Some(TRUE)
      [] OTHER    -> Some(FALSE)

\* match ENABLED.load(..) { 0 => {}, 1 => return false, _ => return true }
cached(cell) ==
    CASE cell = 0 -> None
      [] cell = 1 -> Some(FALSE)
      [] OTHER    -> Some(TRUE)

\* a thread outside backtrace_enabled that has made `calls` calls, the
\* last of which returned `result`
Outside(calls, result) ==
    [pc |-> "outside", enabled |-> FALSE, calls |-> calls, result |-> result]

\* no Error built, nothing rendered
IdleError == error = NoError /\ shown = NoCall

\* no thread has called backtrace_enabled
IdleBacktrace ==
    /\ env = [n \in {"RUST_LIB_BACKTRACE", "RUST_BACKTRACE"} |-> None]
    /\ ENABLED_cell = 0
    /\ thread = [t \in Threads |-> Outside(0, None)]

(***************************************************************************)
(* Operands.                                                               *)
(***************************************************************************)
\* the widths an integer type may have in some build
Widths == {8, 16, 32, 64, 128}

\* MIN and MAX of every signed and unsigned width, and 0
Boundaries ==
    {0} \cup {-(2 ^ (ScaledBits(w) - 1)) : w \in Widths}
        \cup {2 ^ (ScaledBits(w) - 1) - 1 : w \in Widths}
        \cup {2 ^ ScaledBits(w) - 1 : w \in Widths}

\* values the tests and docs of the crate use
Specimens == {-300, -5, -2, 2, 3, 5, 100, 200, 300}

\* the values of type k a caller converts
ConvSamples(k) ==
    {v \in UNION {(x - Near)..(x + Near) : x \in Boundaries} \cup Specimens :
        InRange(v, k)}

\* the values of type k a caller computes with: around MIN, 0 and MAX of
\* the type, and the values of the tests
OpSamples(k) ==
    {v \in UNION {(x - Near)..(x + Near) : x \in {MIN(k), 0, MAX(k)}}
            \cup {2, 3, 5, 100, 200} :
        InRange(v, k)}

\* the Durations a caller divides: below one microsecond, in nanoseconds
DurationSamples == {0, 1, 7, 999}

\* the shift amounts a caller passes: around 0, around the number of bits
\* of every integer type, and around u32::MAX
ShiftSamples ==
    {v \in UNION {(x - Near)..(x + Near) :
                    x \in {0, MAX("u32")} \cup {ScaledBits(w) : w \in Widths}} :
        InRange(v, "u32")}

(***************************************************************************)
(* The state machine.                                                      *)
(***************************************************************************)
Init ==
    /\ ptr_width \in {16, 32, 64}
    /\ src \in Kinds \cup NonZeroKinds \cup {"Duration"}
    /\ \/ /\ src \in Kinds
          /\ rhs = "none"
          /\ a \in ConvSamples(src)
          /\ b = 0
       \/ /\ src = "Duration"
          /\ rhs = "u32"
          /\ a \in DurationSamples
          /\ b \in ShiftSamples
       \/ /\ src \in NonZeroKinds
          /\ rhs = "none"
          /\ a \in ConvSamples(get(src)) \ {0}
          /\ b = 0
       \/ /\ src \in Kinds
          /\ rhs \in {src, Counterpart(src)}
          /\ a \in OpSamples(src)
          /\ b \in OpSamples(rhs)
       \/ /\ src \in Kinds
          /\ rhs = "u32"
          /\ a \in OpSamples(src)
          /\ b \in ShiftSamples
    /\ pc = "ready"
    /\ call = NoCall
    /\ ret = NoCall
    /\ origin = NoValue
    /\ IdleError
    /\ IdleBacktrace

\* the call of `op`, as a method or as a free function, on the operands
\* held returns `result`
Called(form, op, result) ==
    /\ call' = [op |-> op, src |-> src, rhs |-> rhs, form |-> form]
    /\ ret' = result
    /\ pc' = "done"
    /\ UNCHANGED <<error_vars, backtrace_vars, ptr_width, src, a, rhs, b, origin>>

\* the method call `op` on the operands held returns `result`
Return(op, result) == Called("method", op, result)

\* t::cfrom(a) for an integer type t with Cfrom<src>
Cfrom ==
    /\ pc = "ready" /\ rhs = "none"
    /\ \E t \in Kinds : \E rel \in RelsOf(src, t) :
        /\ call' = [op |-> "cfrom", src |-> src, dst |-> t, rel |-> rel]
        /\ ret' = cfrom_by(rel, src, t, a)
    /\ pc' = "done"
    /\ UNCHANGED <<error_vars, backtrace_vars, ptr_width, src, a, rhs, b, origin>>

\* t::saturating_from(a) for an integer type t with SaturatingFrom<src>
SaturatingFrom ==
    /\ pc = "ready" /\ rhs = "none"
    /\ \E t \in Kinds : \E rel \in RelsOf(src, t) :
        /\ call' = [op |-> "saturating_from", src |-> src, dst |-> t, rel |-> rel]
        /\ ret' = Value(saturating_from_by(rel, src, t, a))
    /\ pc' = "done"
    /\ UNCHANGED <<error_vars, backtrace_vars, ptr_width, src, a, rhs, b, origin>>

\* the caller converts the value a successful cfrom returned back to the
\* type it came from
CfromBack ==
    /\ pc = "done" /\ call.op = "cfrom" /\ call.dst \in Kinds
    /\ ret.ok /\ origin = NoValue
    /\ \E rel \in RelsOf(call.dst, call.src) :
        /\ call' = [op |-> "cfrom", src |-> call.dst, dst |-> call.src, rel |-> rel]
        /\ ret' = cfrom_by(rel, call.dst, call.src, ret.val)
    /\ origin' = [kind |-> src, val |-> a]
    /\ src' = call.dst
    /\ a' = ret.val
    /\ UNCHANGED <<error_vars, backtrace_vars, ptr_width, rhs, b, pc>>

\* NonZero::<src>::cfrom(a): the impl_cfrom! for (src, NonZero<src>)
CfromNonZero ==
    /\ pc = "ready" /\ rhs = "none" /\ src \in Kinds
    /\ call' = [op |-> "cfrom", src |-> src, dst |-> NonZero(src), rel |-> "try_from"]
    /\ ret' = impl_cfrom(src, NonZero(src), a)
    /\ pc' = "done"
    /\ UNCHANGED <<error_vars, backtrace_vars, ptr_width, src, a, rhs, b, origin>>

\* NonZero::<t>::cfrom(a) for a NonZero a: the impl_cfrom! for
\* (NonZero<A>, NonZero<t>)
CfromNonZeroInt ==
    /\ pc = "ready" /\ rhs = "none" /\ src \in NonZeroKinds
    /\ \E t \in Kinds :
        /\ <<get(src), t>> \in nonzero_int_cfrom_nonzero_int
        /\ call' = [op |-> "cfrom", src |-> src, dst |-> NonZero(t),
                    rel |-> "try_from"]
        /\ ret' = impl_cfrom(src, NonZero(t), a)
    /\ pc' = "done"
    /\ UNCHANGED <<error_vars, backtrace_vars, ptr_width, src, a, rhs, b, origin>>

\* a.to_non_zero()
ToNonZero ==
    /\ pc = "ready" /\ rhs = "none" /\ src \in Kinds
    /\ Return("to_non_zero", to_non_zero(src, a))

\* non_zero(a)
NonZeroFn ==
    /\ pc = "ready" /\ rhs = "none" /\ src \in Kinds
    /\ Called("free", "non_zero", non_zero(src, a))

\* a.cadd(b), both of type src
Cadd ==
    /\ pc = "ready" /\ rhs = src
    /\ Return("cadd", cadd(src, a, b))

\* a.cadd(b), a unsigned and b signed of the same width
CaddSigned ==
    /\ pc = "ready" /\ src \in Unsigned /\ rhs = Counterpart(src)
    /\ Return("cadd", cadd_signed(src, a, b))

\* a.cadd(b), a signed and b unsigned of the same width
CaddUnsigned ==
    /\ pc = "ready" /\ Signed(src) /\ rhs = Counterpart(src)
    /\ Return("cadd", cadd_unsigned(src, a, b))

\* a.csub(b), both of type src
Csub ==
    /\ pc = "ready" /\ rhs = src
    /\ Return("csub", csub(src, a, b))

\* a.csub(b), a signed and b unsigned of the same width
CsubUnsigned ==
    /\ pc = "ready" /\ Signed(src) /\ rhs = Counterpart(src)
    /\ Return("csub", csub_unsigned(src, a, b))

\* a.cmul(b), both of type src
Cmul ==
    /\ pc = "ready" /\ rhs = src
    /\ Return("cmul", cmul(src, a, b))

\* a.cdiv(b), both of type src
Cdiv ==
    /\ pc = "ready" /\ rhs = src
    /\ Return("cdiv", cdiv(src, a, b))

\* a.cdiv(b), a a Duration and b a u32
CdivDuration ==
    /\ pc = "ready" /\ rhs = "u32" /\ src = "Duration"
    /\ Return("cdiv", cdiv_duration(a, b))

\* a.cdiv_euclid(b), both of type src
CdivEuclid ==
    /\ pc = "ready" /\ rhs = src
    /\ Return("cdiv_euclid", cdiv_euclid(src, a, b))

\* a.crem(b), both of type src
Crem ==
    /\ pc = "ready" /\ rhs = src
    /\ Return("crem", crem(src, a, b))

\* a.crem_euclid(b), both of type src
CremEuclid ==
    /\ pc = "ready" /\ rhs = src
    /\ Return("crem_euclid", crem_euclid(src, a, b))

\* a.cilog(b), both of type src
CILog ==
    /\ pc = "ready" /\ rhs = src
    /\ Return("cilog", cilog(src, a, b))

\* a.cshl(b), b a u32
Cshl ==
    /\ pc = "ready" /\ rhs = "u32" /\ src \in Kinds
    /\ Return("cshl", cshl(src, a, b))

\* a.cshr(b), b a u32
Cshr ==
    /\ pc = "ready" /\ rhs = "u32" /\ src \in Kinds
    /\ Return("cshr", cshr(src, a, b))

\* a.cilog2() and a.cilog10()
CILog2 ==
    /\ pc = "ready" /\ rhs = "none" /\ src \in Kinds
    /\ Return("cilog2", cilog2(src, a))

CILog10 ==
    /\ pc = "ready" /\ rhs = "none" /\ src \in Kinds
    /\ Return("cilog10", cilog10(src, a))

\* a.cpow(b), b a u32
Cpow ==
    /\ pc = "ready" /\ rhs = "u32" /\ src \in Kinds
    /\ Return("cpow", cpow(src, a, b))

\* a.cneg()
Cneg ==
    /\ pc = "ready" /\ rhs = "none" /\ src \in cneg_impls
    /\ Return("cneg", cneg(src, a))

\* a.cabs()
Cabs ==
    /\ pc = "ready" /\ rhs = "none" /\ src \in cabs_impls
    /\ Return("cabs", cabs(src, a))

\* a.cnext_multiple_of(b), both of type src
CnextMultipleOf ==
    /\ pc = "ready" /\ rhs = src /\ src \in cnext_multiple_of_impls
    /\ Return("cnext_multiple_of", cnext_multiple_of(src, a, b))

\* a.cnext_power_of_two()
CnextPowerOfTwo ==
    /\ pc = "ready" /\ rhs = "none" /\ src \in cnext_power_of_two_impls
    /\ Return("cnext_power_of_two", cnext_power_of_two(src, a))

\* op(a, b): the free function of a two-operand operation
FreeBinary ==
    /\ pc = "ready" /\ rhs # "none"
    /\ \E op \in binary_impls(src, rhs) :
        Called("free", op, free_binary(op, src, rhs, a, b))

\* op(a): the free function of a one-operand operation
FreeUnary ==
    /\ pc = "ready" /\ rhs = "none"
    /\ \E op \in unary_impls(src) :
        Called("free", op, free_unary(op, src, a))

\* the conversion `op` of a to the type t returns `result`
Converted(op, t, result) ==
    /\ call' = [op |-> op, src |-> src, dst |-> t, rel |-> rel_of(src, t)]
    /\ ret' = result
    /\ pc' = "done"
    /\ UNCHANGED <<error_vars, backtrace_vars, ptr_width, src, a, rhs, b, origin>>

\* a.cinto() with the target type t inferred
Cinto ==
    /\ pc = "ready" /\ rhs = "none"
    /\ \E t \in cfrom_impls(src) : Converted("cinto", t, cinto(src, t, a))

\* a.cinto_type::<t>()
CintoType ==
    /\ pc = "ready" /\ rhs = "none"
    /\ \E t \in cfrom_impls(src) :
        Converted("cinto_type", t, cinto_type(src, t, a))

\* a.saturating_into() with the target type t inferred
SaturatingInto ==
    /\ pc = "ready" /\ rhs = "none"
    /\ \E t \in saturating_from_impls(src) :
        Converted("saturating_into", t, Value(saturating_into(src, t, a)))

\* a.saturating_into_type::<t>()
SaturatingIntoType ==
    /\ pc = "ready" /\ rhs = "none"
    /\ \E t \in saturating_from_impls(src) :
        Converted("saturating_into_type", t,
                  Value(saturating_into_type(src, t, a)))

Next ==
    \/ Cfrom
    \/ SaturatingFrom
    \/ CfromBack
    \/ CfromNonZero
    \/ ToNonZero
    \/ NonZeroFn
    \/ Cadd
    \/ CaddSigned
    \/ CaddUnsigned
    \/ Csub
    \/ CsubUnsigned
    \/ Cmul
    \/ Cdiv
    \/ CdivEuclid
    \/ Crem
    \/ CremEuclid
    \/ CILog
    \/ Cshl
    \/ Cshr
    \/ CILog2
    \/ CILog10
    \/ Cpow
    \/ Cneg
    \/ Cabs
    \/ CnextMultipleOf
    \/ CnextPowerOfTwo
    \/ FreeBinary
    \/ FreeUnary
    \/ Cinto
    \/ CintoType
    \/ SaturatingInto
    \/ SaturatingIntoType
    \/ CfromNonZeroInt
    \/ CdivDuration

Spec == Init /\ [][Next]_vars

(***************************************************************************)
(* SpecError: an Error is built and rendered.                              *)
(***************************************************************************)
\* the caller of conversions and operations does nothing
IdleOps ==
    /\ ptr_width = 64
    /\ src = "u8" /\ a = 0 /\ rhs = "none" /\ b = 0
    /\ pc = "idle"
    /\ call = NoCall /\ ret = NoCall /\ origin = NoValue

\* messages the crate passes to Error::new
Messages ==
    {cadd("u8", 200, 100).msg, csub("u8", 2, 3).msg, cmul("i8", 100, 2).msg,
     cdiv("i8", 5, 0).msg, cneg("i8", MIN("i8")).msg, cabs("i16", MIN("i16")).msg,
     cilog("u8", 0, 2).msg, cshl("u8", 1, 8).msg, cpow("u8", 2, 8).msg,
     cfrom("i32", "u32", -5).msg, to_non_zero("u32", 0).msg}

\* what Backtrace::capture() can return, with its Display rendering: no
\* backtrace on a platform without support or when capture is disabled, the
\* frames otherwise
Backtraces ==
    {[status |-> "Unsupported", frames |-> "unsupported backtrace"],
     [status |-> "Disabled", frames |-> "disabled backtrace"]}
    \cup {[status |-> "Captured", frames |-> f] :
            f \in {"", "   0: cadd::error::Error::new\n",
                   "   0: cadd::error::Error::new\n   1: cadd::tests::test1\n"}}

InitError ==
    /\ IdleOps
    /\ IdleBacktrace
    /\ IdleError

\* Error::new(m)
ErrorNew ==
    /\ error = NoError
    /\ \E m \in Messages : \E backtrace \in Backtraces :
        /\ error' = Error_new(m, backtrace)
        /\ shown' = [op |-> "new", arg |-> m]
    /\ UNCHANGED <<op_vars, backtrace_vars>>

\* a rendering `op` of the error returns `out`
Shown(op, out) ==
    /\ error # NoError /\ shown.op = "new"
    /\ shown' = [op |-> op, arg |-> shown.arg, out |-> out]
    /\ UNCHANGED <<op_vars, backtrace_vars, error>>

\* format!("{:?}", error)
ErrorDebug == Shown("debug", Debug_fmt(error))

\* error.to_string()
ErrorDisplay == Shown("display", Display_fmt(error))

\* error.message()
ErrorMessage == Shown("message", Error_message(error))

NextError ==
    \/ ErrorNew
    \/ ErrorDebug
    \/ ErrorDisplay
    \/ ErrorMessage

SpecError == InitError /\ [][NextError]_vars

(***************************************************************************)
(* SpecBacktrace: the threads of a process call backtrace_enabled.         *)
(***************************************************************************)
\* the values an environment variable is set to
EnvValues == {"0", "1", "full"}

InitBacktrace ==
    /\ IdleOps
    /\ IdleError
    /\ env \in [{"RUST_LIB_BACKTRACE", "RUST_BACKTRACE"}
                    -> {None} \cup {Some(v) : v \in EnvValues}]
    /\ ENABLED_cell = 0
    /\ thread = [t \in Threads |-> Outside(0, None)]

\* a call that resolves the flag from the environment whatever the cell
\* holds
Load_uncached(t) ==
    /\ thread[t].pc = "outside" /\ thread[t].calls < MaxCalls
    /\ thread' = [thread EXCEPT ![t] =
            [@ EXCEPT !.pc = "read_lib", !.calls = @ + 1]]
    /\ UNCHANGED <<op_vars, error_vars, env, ENABLED_cell>>

\* thread t calls backtrace_enabled: ENABLED.load and the match on it
Load(t) ==
    /\ thread[t].pc = "outside" /\ thread[t].calls < MaxCalls
    /\ thread' = [thread EXCEPT ![t] =
            IF cached(ENABLED_cell).some
            THEN Outside(@.calls + 1, cached(ENABLED_cell))
            ELSE [@ EXCEPT !.pc = "read_lib", !.calls = @ + 1]]
    /\ UNCHANGED <<op_vars, error_vars, env, ENABLED_cell>>

\* a thread that reads RUST_BACKTRACE whatever RUST_LIB_BACKTRACE holds
ReadLib_ignored(t) ==
    /\ thread[t].pc = "read_lib"
    /\ thread' = [thread EXCEPT ![t].pc = "read_bt"]
    /\ UNCHANGED <<op_vars, error_vars, env, ENABLED_cell>>

\* match env::var("RUST_LIB_BACKTRACE")
ReadLib(t) ==
    /\ thread[t].pc = "read_lib"
    /\ thread' = [thread EXCEPT ![t] =
            IF env_var("RUST_LIB_BACKTRACE").some
            THEN [@ EXCEPT !.pc = "store",
                           !.enabled = var_enabled(env_var("RUST_LIB_BACKTRACE").val)]
            ELSE [@ EXCEPT !.pc = "read_bt"]]
    /\ UNCHANGED <<op_vars, error_vars, env, ENABLED_cell>>

\* match env::var("RUST_BACKTRACE")
ReadBt(t) ==
    /\ thread[t].pc = "read_bt"
    /\ thread' = [thread EXCEPT ![t] =
            [@ EXCEPT !.pc = "store",
                      !.enabled =
                          IF env_var("RUST_BACKTRACE").some
                          THEN var_enabled(env_var("RUST_BACKTRACE").val)
                          ELSE FALSE]]
    /\ UNCHANGED <<op_vars, error_vars, env, ENABLED_cell>>

\* ENABLED.store(enabled as u8 + 1, ..) and the return of enabled
Store(t) ==
    /\ thread[t].pc = "store"
    /\ ENABLED_cell' = encode(thread[t].enabled)
    /\ thread' = [thread EXCEPT ![t] =
            Outside(@.calls, Some(thread[t].enabled))]
    /\ UNCHANGED <<op_vars, error_vars, env>>

NextBacktrace ==
    \E t \in Threads :
        \/ Load(t)
        \/ ReadLib(t)
        \/ ReadBt(t)
        \/ Store(t)

SpecBacktrace == InitBacktrace /\ [][NextBacktrace]_vars

(***************************************************************************)
(* SpecBacktraceEnv: as SpecBacktrace, in a process that also changes its  *)
(* environment between the steps of the calls.                             *)
(***************************************************************************)
\* the process sets or removes one of the two variables
SetEnv ==
    /\ \E n \in DOMAIN env : \E v \in {None} \cup {Some(x) : x \in EnvValues} :
        /\ env[n] # v
        /\ env' = [env EXCEPT ![n] = v]
    /\ UNCHANGED <<op_vars, error_vars, ENABLED_cell, thread>>

NextBacktraceEnv ==
    \/ NextBacktrace
    \/ SetEnv

SpecBacktraceEnv == InitBacktrace /\ [][NextBacktraceEnv]_vars

(***************************************************************************)
(* SpecArray: slices and owned containers are converted to arrays          *)
(* (convert_impls.rs and convert_impls/array.rs).                          *)
(***************************************************************************)
\* a panic of the thread that made the call
Panic(why) == [panic |-> why]

\* <[T; N]>::try_from(slice) and its like for Rc, Arc, Vec and Box: Ok iff
\* the length is N
try_into_array(n, from) ==
    IF Len(from) = n THEN Ok(from) ELSE Err("could not convert slice to array")

\* Result::unwrap: the value, or the panic that unwinds out of the caller
unwrap(r) ==
    IF r.ok THEN [panicked |-> FALSE, val |-> r.val]
    ELSE [panicked |-> TRUE, why |-> "called Result::unwrap() on an Err value"]

\* the entries of a DebugList separated by ", "
RECURSIVE entries_joined(_)
entries_joined(entries) ==
    IF entries = <<>> THEN ""
    ELSE IF Len(entries) = 1 THEN entries[1]
    ELSE entries[1] \o ", " \o entries_joined(Tail(entries))

\* f.debug_list() ... .finish(), and `{:?}` of a slice
debug_list(entries) == "[" \o entries_joined(entries) \o "]"

MAX_ITEMS == 32

\* a preview that elides a slice of MAX_ITEMS elements already
SliceLimitedDebug_fmt_early(self) ==
    IF Len(self) >= MAX_ITEMS
    THEN debug_list(
            [i \in 1..(MAX_ITEMS \div 2) |-> Debug(self[i])]
            \o <<"\"...\"">>
            \o [i \in 1..(MAX_ITEMS \div 2) |->
                    Debug(self[Len(self) - MAX_ITEMS \div 2 + i])])
    ELSE debug_list([i \in 1..Len(self) |-> Debug(self[i])])

\* impl Debug for SliceLimitedDebug; the entry &"..." is a &str, which
\* Debug writes in quotes
SliceLimitedDebug_fmt(self) ==
    IF Len(self) > MAX_ITEMS
    THEN debug_list(
            [i \in 1..(MAX_ITEMS \div 2) |-> Debug(self[i])]
            \o <<"\"...\"">>
            \o [i \in 1..(MAX_ITEMS \div 2) |->
                    Debug(self[Len(self) - MAX_ITEMS \div 2 + i])])
    ELSE debug_list([i \in 1..Len(self) |-> Debug(self[i])])

slice_to_array_error(target_len, value) ==
    "expected slice of length " \o Debug(target_len) \o ", got length "
        \o Debug(Len(value)) \o ": " \o SliceLimitedDebug_fmt(value)

\* a conversion that reports the length the slice has as the expected one
cfrom_slice_lengths_swapped(n, from) ==
    IF try_into_array(n, from).ok THEN try_into_array(n, from)
    ELSE Err(slice_to_array_error(Len(from), from))

\* from.try_into().map_err(|_| slice_to_array_error(N, from))
cfrom_slice(n, from) ==
    IF try_into_array(n, from).ok THEN try_into_array(n, from)
    ELSE Err(slice_to_array_error(n, from))

\* Cfrom<&mut [T]> for &mut [T; N] of convert_impls.rs: the match
cfrom_slice_mut(n, from) ==
    IF try_into_array(n, from).ok THEN Ok(try_into_array(n, from).val)
    ELSE Err(slice_to_array_error(n, from))

\* a conversion that unwraps without comparing the lengths
cfrom_len_unchecked(n, from) ==
    LET v == unwrap(try_into_array(n, from))
    IN  IF v.panicked THEN Panic(v.why) ELSE Ok(v.val)

\* Cfrom<&mut [T]> for &mut [T; N] of convert_impls/array.rs and
\* impl_cfrom_owned_to_array!: the length is compared, then unwrap
cfrom_len_checked(n, from) ==
    IF Len(from) = n
    THEN LET v == unwrap(try_into_array(n, from))
         IN  IF v.panicked THEN Panic(v.why) ELSE Ok(v.val)
    ELSE Err(slice_to_array_error(n, from))

\* the pairs (from, to) of the impls, by the form of their body
try_into_impls ==
    {<<"&[T]", "&[T; N]">>, <<"&[T]", "[T; N]">>, <<"&mut [T]", "[T; N]">>}

len_checked_impls ==
    {<<"&mut [T]", "&mut [T; N]">>, <<"Rc<[T]>", "Rc<[T; N]>">>,
     <<"Arc<[T]>", "Arc<[T; N]>">>, <<"Vec<T>", "[T; N]">>,
     <<"Box<[T]>", "Box<[T; N]>">>, <<"Vec<T>", "Box<[T; N]>">>}

\* the slices a caller holds: every length up to MaxLen, the elements
\* ascending, descending or all the same
Slices ==
    UNION {{[i \in 1..len |-> i], [i \in 1..len |-> 200 - i],
            [i \in 1..len |-> 7]} : len \in 0..MaxLen}

InitArray ==
    /\ ptr_width = 64
    /\ src \in {p[1] : p \in try_into_impls \cup len_checked_impls}
    /\ a \in Slices
    /\ rhs = "none" /\ b = 0
    /\ pc = "ready"
    /\ call = NoCall /\ ret = NoCall /\ origin = NoValue
    /\ IdleError
    /\ IdleBacktrace

\* the conversion of the slice a to the array type `to` of length n by the
\* impl of form `rel` returns `result`
ConvertedToArray(to, n, rel, result) ==
    /\ call' = [op |-> "cfrom", src |-> src, dst |-> to, n |-> n, rel |-> rel]
    /\ ret' = result
    /\ pc' = "done"
    /\ UNCHANGED <<error_vars, backtrace_vars, ptr_width, src, a, rhs, b, origin>>

\* <to>::cfrom(a) of the impls whose body is try_into().map_err(..)
CfromSlice ==
    /\ pc = "ready"
    /\ \E to \in {p[2] : p \in {q \in try_into_impls : q[1] = src}} :
       \E n \in 0..MaxLen :
            ConvertedToArray(to, n, "try_into", cfrom_slice(n, a))

\* <&mut [T; N]>::cfrom(a) of convert_impls.rs
CfromSliceMut ==
    /\ pc = "ready" /\ src = "&mut [T]"
    /\ \E n \in 0..MaxLen :
            ConvertedToArray("&mut [T; N]", n, "match", cfrom_slice_mut(n, a))

\* <to>::cfrom(a) of the impls that compare the length and unwrap
CfromLenChecked ==
    /\ pc = "ready"
    /\ \E to \in {p[2] : p \in {q \in len_checked_impls : q[1] = src}} :
       \E n \in 0..MaxLen :
            ConvertedToArray(to, n, "len_checked", cfrom_len_checked(n, a))

NextArray ==
    \/ CfromSlice
    \/ CfromSliceMut
    \/ CfromLenChecked

SpecArray == InitArray /\ [][NextArray]_vars

(***************************************************************************)
(* SpecChecked: a caller of any conversion or operation of the crate.      *)
(***************************************************************************)
InitChecked ==
    \/ Init
    \/ InitArray

NextChecked ==
    \/ Next
    \/ NextArray

SpecChecked == InitChecked /\ [][NextChecked]_vars

(***************************************************************************)
(* Properties.                                                             *)
(***************************************************************************)
PtrKinds == {"usize", "isize"}

Clamp(v, k) == IF v < MIN(k) THEN MIN(k) ELSE IF v > MAX(k) THEN MAX(k) ELSE v

\* the range of type s lies within the range of type t when usize / isize
\* are pw bits wide
WithinAt(s, t, pw) ==
    LET bs == ScaledBits(WidthAt(s, pw))
        bt == ScaledBits(WidthAt(t, pw))
        lo(k, n) == IF Signed(k) THEN -(2 ^ (n - 1)) ELSE 0
        hi(k, n) == IF Signed(k) THEN 2 ^ (n - 1) - 1 ELSE 2 ^ n - 1
    IN  lo(t, bt) <= lo(s, bs) /\ hi(s, bs) <= hi(t, bt)

\* the pairs std converts with the infallible From: a fixed-width source
\* whose range lies within the target's, a pointer-sized target counting
\* as 16 bits wide
StdFrom(s, t) == s # t /\ s \notin PtrKinds /\ WithinAt(s, t, 16)

\* C1: for fixed-width integer types A, B with Cfrom<A> for B, B::cfrom(v)
\* is Ok iff MIN_B <= v <= MAX_B, and the Ok value equals v.
C1_CheckedIffInRange ==
    (pc = "done" /\ call.op = "cfrom"
        /\ call.src \in Kinds \ PtrKinds /\ call.dst \in Kinds \ PtrKinds)
    => /\ ret.ok <=> InRange(a, call.dst)
       /\ ret.ok => ret.val = a

C1_Witness ==
    /\ pc = "done" /\ call.op = "cfrom"
    /\ call.src = "u16" /\ call.dst = "i16"
    /\ a = MAX("i16") + 1 /\ ~ret.ok

\* C2: B::saturating_from(v) always returns a value: v clamped to
\* [MIN_B, MAX_B]; it is the value of B::cfrom(v) whenever that is Ok.
C2_SaturatingClamps ==
    (pc = "done" /\ call.op = "saturating_from")
    => /\ ret.val = Clamp(a, call.dst)
       /\ LET checked == cfrom_by(call.rel, call.src, call.dst, a)
          IN  checked.ok => ret.val = checked.val

C2_Witness ==
    /\ pc = "done" /\ call.op = "saturating_from"
    /\ call.src = "i32" /\ call.dst = "i8"
    /\ a < MIN("i8") /\ ret.val = MIN("i8")

\* C3 as stated: every ordered pair of integer types (here: the type the
\* caller holds, paired with every type) is assigned exactly one of the
\* four relationships.
C3_EveryPairAssigned ==
    src \in Kinds => \A t \in Kinds : Cardinality(RelsOf(src, t)) = 1

\* C3 amended: every ordered pair of integer types (the type the caller
\* holds, paired with every type) is assigned at most one
\* relationship - none exactly when the two types are the same or std
\* converts the pair with From - and for an assigned pair the checked and
\* the saturating conversion come from that one relationship, so the
\* saturating conversion returns its argument unchanged exactly when the
\* checked conversion succeeds.
C3_OneRelationshipWhereImplemented ==
    /\ src \in Kinds => \A t \in Kinds :
        /\ Cardinality(RelsOf(src, t)) <= 1
        /\ RelsOf(src, t) = {} <=> (src = t \/ StdFrom(src, t))
    /\ (pc = "done" /\ call.op \in {"cfrom", "saturating_from"}
            /\ call.dst \in Kinds)
        => /\ RelsOf(call.src, call.dst) = {call.rel}
           /\ cfrom_by(call.rel, call.src, call.dst, a).ok
                <=> saturating_from_by(call.rel, call.src, call.dst, a) = a

C3_Witness ==
    /\ pc = "done" /\ call.op = "saturating_from"
    /\ call.src = "i64" /\ call.dst = "u32" /\ call.rel = "both_bounded"
    /\ a > MAX("u32") /\ ret.val # a

\* C4: a value converted from A to B by the checked conversion and back
\* from B to A by the checked conversion (both implemented) succeeds at
\* both steps and returns the value it started from.
C4_RoundTrip ==
    (pc = "done" /\ origin # NoValue)
    => /\ call.dst = origin.kind
       /\ ret.ok
       /\ ret.val = origin.val

C4_Witness ==
    /\ pc = "done" /\ origin # NoValue
    /\ origin.kind = "i8" /\ call.src = "u32" /\ origin.val = 0
    /\ ret.ok

\* C5: for usize / isize of pointer width W in {16, 32, 64} and every
\* fixed-width type K, the checked conversion in either direction is Ok
\* iff the value lies in the target's range with usize / isize W bits
\* wide, and the saturating conversion clamps to that range.
C5_PointerWidth ==
    (pc = "done" /\ call.op \in {"cfrom", "saturating_from"}
        /\ call.dst \in Kinds
        /\ (call.src \in PtrKinds \/ call.dst \in PtrKinds))
    => /\ call.op = "cfrom" =>
            /\ ret.ok <=> InRange(a, call.dst)
            /\ ret.ok => ret.val = a
       /\ call.op = "saturating_from" => ret.val = Clamp(a, call.dst)

C5_Witness ==
    /\ pc = "done" /\ call.op = "cfrom" /\ ptr_width = 32
    /\ call.src = "u64" /\ call.dst = "usize"
    /\ a = 2 ^ ScaledBits(32) /\ ~ret.ok

\* C6: a failed checked integer conversion of v from A to B carries exactly
\* the message `cannot convert value <v> from <A> to <B>: value is out of
\* bounds`, whichever macro generated it; (-5i32).cinto_type::<u32>() fails
\* with `cannot convert value -5 from i32 to u32: value is out of bounds`.
C6_OutOfBoundsMessage ==
    /\ (pc = "done" /\ call.op = "cfrom" /\ ~ret.ok)
        => ret.msg = "cannot convert value " \o ToString(a) \o " from "
                        \o (IF call.src \in Kinds THEN call.src
                            ELSE "core::num::nonzero::" \o call.src)
                        \o " to "
                        \o (IF call.dst \in Kinds THEN call.dst
                            ELSE "core::num::nonzero::" \o call.dst)
                        \o ": value is out of bounds"
    /\ (pc = "done" /\ call.op = "cfrom" /\ call.src = "i32"
            /\ call.dst = "u32" /\ a = -5)
        => ret = [ok |-> FALSE,
                  msg |-> "cannot convert value -5 from i32 to u32: value is out of bounds"]

C6_Witness ==
    /\ pc = "done" /\ call.op = "cfrom"
    /\ call.src = "i32" /\ call.dst = "u32" /\ a = -5
    /\ ~ret.ok

\* C7: to_non_zero(v) and non_zero(v) fail iff v == 0, with the message
\* `unexpected zero value`; for v != 0 they return a NonZero whose value
\* is v.
C7_ToNonZero ==
    (pc = "done" /\ call.op \in {"to_non_zero", "non_zero"})
    => /\ ~ret.ok <=> a = 0
       /\ ~ret.ok => ret.msg = "unexpected zero value"
       /\ ret.ok => ret.val = a

C7_Witness ==
    /\ pc = "done" /\ call.op = "non_zero"
    /\ a = 0 /\ ~ret.ok /\ ret.msg = "unexpected zero value"

\* C8: for a, b of the same integer type T, cadd(a, b) is Ok(a + b) iff the
\* exact sum lies in [T::MIN, T::MAX], and otherwise fails with exactly
\* `overflow: <a> + <b>`; 2u8 + 3u8 is 5, 255u8 + 1u8 and 200u8 + 100u8
\* fail.
C8_CaddSameType ==
    /\ (pc = "done" /\ call.op = "cadd" /\ call.rhs = call.src)
        => /\ ret.ok <=> InRange(a + b, call.src)
           /\ ret.ok => ret.val = a + b
           /\ ~ret.ok => ret.msg = "overflow: " \o ToString(a) \o " + " \o ToString(b)
    /\ (pc = "done" /\ call.op = "cadd" /\ call.src = "u8" /\ call.rhs = "u8")
        => /\ (a = 2 /\ b = 3) => ret = [ok |-> TRUE, val |-> 5]
           /\ (a = 255 /\ b = 1) => ret = [ok |-> FALSE, msg |-> "overflow: 255 + 1"]
           /\ (a = 200 /\ b = 100) => ret = [ok |-> FALSE, msg |-> "overflow: 200 + 100"]

C8_Witness ==
    /\ pc = "done" /\ call.op = "cadd"
    /\ call.src = "u8" /\ call.rhs = "u8" /\ a = 255 /\ b = 1
    /\ ~ret.ok

DivFamily == {"cdiv", "cdiv_euclid", "crem", "crem_euclid"}

\* C9: on a signed type, cdiv, cdiv_euclid, crem and crem_euclid fail with
\* a message starting `division by zero:` iff b == 0, fail with a message
\* starting `overflow:` iff a == MIN and b == -1, and succeed otherwise.
C9_DivisionFamilySigned ==
    (pc = "done" /\ call.op \in DivFamily /\ Signed(call.src))
    => /\ (~ret.ok /\ StartsWith(ret.msg, "division by zero:")) <=> b = 0
       /\ (~ret.ok /\ StartsWith(ret.msg, "overflow:"))
            <=> (a = MIN(call.src) /\ b = -1)
       /\ ret.ok <=> (b # 0 /\ ~(a = MIN(call.src) /\ b = -1))

C9_Witness ==
    /\ pc = "done" /\ call.op = "crem_euclid" /\ call.src = "i16"
    /\ a = MIN("i16") /\ b = -1
    /\ ~ret.ok /\ StartsWith(ret.msg, "overflow:")

OpSymbol(op) ==
    CASE op = "cadd" -> " + " [] op = "csub" -> " - " [] op = "cmul" -> " * "

\* C10: for every operand-type combination of cadd, csub and cmul, an
\* overflow fails with `overflow: <a> <op-symbol> <b>`, the symbol being
\* that of the operation invoked: + for cadd, - for csub, * for cmul.
C10_OverflowNamesTheOperation ==
    (pc = "done" /\ call.op \in {"cadd", "csub", "cmul"} /\ ~ret.ok)
    => ret.msg = "overflow: " \o ToString(a) \o OpSymbol(call.op) \o ToString(b)

\* C11: cilog(a, b) succeeds iff a > 0 and b >= 2, returning r with
\* b^r <= a < b^(r+1); a failure message starts `base is less than 2:` iff
\* b < 2 and starts `number is not positive:` iff b >= 2 and a <= 0.
C11_ILogDomain ==
    (pc = "done" /\ call.op = "cilog")
    => /\ ret.ok <=> (a > 0 /\ b >= 2)
       /\ ret.ok => (b ^ ret.val <= a /\ a < b ^ (ret.val + 1))
       /\ ~ret.ok =>
            /\ StartsWith(ret.msg, "base is less than 2:") <=> b < 2
            /\ StartsWith(ret.msg, "number is not positive:")
                <=> (b >= 2 /\ a <= 0)

C11_Witness ==
    /\ pc = "done" /\ call.op = "cilog" /\ call.src = "i16"
    /\ a = -1 /\ b = 2
    /\ ~ret.ok /\ StartsWith(ret.msg, "number is not positive:")

\* C12: for an integer type of w bits and a shift amount b, cshl(a, b) and
\* cshr(a, b) fail iff b >= w, with the message `shift amount is too
\* large: <a> << <b>` (>> for cshr); for b < w they succeed for every a.
C12_ShiftAmount ==
    (pc = "done" /\ call.op \in {"cshl", "cshr"})
    => /\ ~ret.ok <=> b >= Bits(call.src)
       /\ ~ret.ok =>
            ret.msg = "shift amount is too large: " \o ToString(a)
                        \o (IF call.op = "cshl" THEN " << " ELSE " >> ")
                        \o ToString(b)

C12_Witness ==
    /\ pc = "done" /\ call.op = "cshr" /\ call.src = "i8"
    /\ a = -1 /\ b = Bits("i8")
    /\ ~ret.ok

\* C13 as stated: Cabs and Cneg are implemented only for signed integer
\* types and their NonZero, CnextPowerOfTwo and CnextMultipleOf only for
\* unsigned types: no call of cneg or cabs is made on an unsigned type, no
\* call of a next-* operation on a signed one.
C13_NegAndAbsSignedOnly ==
    pc = "done" =>
        /\ call.op \in {"cneg", "cabs"} => Signed(get(call.src))
        /\ call.op \in {"cnext_power_of_two", "cnext_multiple_of"}
            => ~Signed(get(call.src))

\* C13 amended: Cabs is implemented only for signed integer types and
\* their NonZero; Cneg for every integer type and for the NonZero of the
\* signed ones, and on an unsigned type it succeeds for 0 alone;
\* CnextMultipleOf only for unsigned integer types, CnextPowerOfTwo only
\* for unsigned integer types and their NonZero.
C13_TypeCoverage ==
    pc = "done" =>
        /\ call.op = "cabs" => Signed(get(call.src))
        /\ call.op = "cneg" =>
            /\ Signed(get(call.src)) \/ call.src \in Kinds
            /\ ~Signed(get(call.src)) =>
                /\ ret.ok <=> a = 0
                /\ ~ret.ok => ret.msg = "overflow: -" \o ToString(a)
        /\ call.op = "cnext_multiple_of" => call.src \in Unsigned
        /\ call.op = "cnext_power_of_two" => ~Signed(get(call.src))

C13_Witness ==
    /\ pc = "done" /\ call.op = "cneg" /\ call.src = "u8"
    /\ a = 5 /\ ~ret.ok

\* the operations of the catalogue
BinaryOps ==
    {"cadd", "csub", "cmul", "cdiv", "cdiv_euclid", "crem", "crem_euclid",
     "cilog", "cshl", "cshr", "cpow", "cnext_multiple_of"}

UnaryOps == {"cneg", "cabs", "cilog2", "cilog10", "cnext_power_of_two"}

\* C14: for every operation of the catalogue and all operands, the free
\* function returns exactly what the method returns on the same operands:
\* the same Ok value, or a failure with the same message.
C14_FreeFunctionIsMethod ==
    /\ (pc = "done" /\ call.op \in BinaryOps)
        => /\ call.op \in binary_impls(call.src, call.rhs)
           /\ ret = method_binary(call.op, call.src, call.rhs, a, b)
    /\ (pc = "done" /\ call.op \in UnaryOps)
        => /\ call.op \in unary_impls(call.src)
           /\ ret = method_unary(call.op, call.src, a)

C14_Witness ==
    /\ pc = "done" /\ call.op = "csub" /\ call.form = "free"
    /\ call.src = "i8" /\ call.rhs = "u8"
    /\ a = MIN("i8") /\ b = 1 /\ ~ret.ok

\* C15: for every pair (F, I) with Cfrom<F> for I (SaturatingFrom<F> for
\* I) and every value v of F, v.cinto() and v.cinto_type::<I>() return
\* exactly what I::cfrom(v) returns, and v.saturating_into() and
\* v.saturating_into_type::<I>() exactly what I::saturating_from(v)
\* returns: the outcome of the macro that implements the pair.
C15_IntoForwards ==
    /\ (pc = "done" /\ call.op \in {"cinto", "cinto_type"})
        => /\ call.dst \in Kinds
                => /\ RelsOf(call.src, call.dst) = {call.rel}
                   /\ ret = cfrom_by(call.rel, call.src, call.dst, a)
           /\ call.dst \notin Kinds
                => ret = impl_cfrom(call.src, call.dst, a)
    /\ (pc = "done" /\ call.op \in {"saturating_into", "saturating_into_type"})
        => /\ RelsOf(call.src, call.dst) = {call.rel}
           /\ ret = Value(saturating_from_by(call.rel, call.src, call.dst, a))

C15_Witness ==
    /\ pc = "done" /\ call.op = "cinto_type"
    /\ call.src = "i32" /\ call.dst = "u32"
    /\ a = -5 /\ ~ret.ok

\* C16: the Display rendering of an Error is its Debug rendering; the
\* rendering is the message alone unless the backtrace status is Captured,
\* and then it is the message followed by `\nstack backtrace:\n` and the
\* trace; message() returns the string passed to Error::new.
C16_ErrorRendering ==
    /\ shown.op \in {"debug", "display"}
        => shown.out =
            IF error.backtrace.status = "Captured"
            THEN shown.arg \o "\nstack backtrace:\n" \o error.backtrace.frames
            ELSE shown.arg
    /\ shown.op = "display" => shown.out = Debug_fmt(error)
    /\ shown.op = "message" => shown.out = shown.arg

C16_Witness ==
    /\ shown.op = "display"
    /\ shown.arg = "overflow: 200 + 100"
    /\ error.backtrace.status = "Captured" /\ error.backtrace.frames # ""
    /\ StartsWith(shown.out, "overflow: 200 + 100\nstack backtrace:\n")

\* what the environment of the process says about capture
LibSet == env["RUST_LIB_BACKTRACE"].some

BtSet == env["RUST_BACKTRACE"].some

C19_FirstReadWins ==
    /\ [](/\ ENABLED_cell \in {0, 1, 2}
          /\ \A t \in Threads :
                thread[t].result.some =>
                    /\ ENABLED_cell # 0
                    /\ thread[t].result.val = (ENABLED_cell = 2))
    /\ [][ENABLED_cell # 0 => ENABLED_cell' = ENABLED_cell]_vars

C19_Witness ==
    /\ ENABLED_cell # 0
    /\ thread[1].pc = "store"
    /\ thread[2].result.some /\ thread[2].calls = MaxCalls

\* C20 as stated: the cell leaves the uninitialized state by a
\* compare-and-set, so that at most one write to it takes effect: a call
\* writes the cell only if the cell is still uninitialized.
C20_WritesOnlyWhenUninitialized ==
    [][\A t \in Threads :
            (thread[t].pc = "store" /\ thread'[t].pc = "outside")
                => ENABLED_cell = 0]_vars

\* C20 amended: the cell is written by a plain store: every call that
\* loaded the uninitialized state stores, whatever the cell holds by then.
\* Every store leaves the cell initialized, and a store that finds it
\* initialized stores the value it already holds, so the cell changes
\* exactly once, from uninitialized to the flag.
C20_InitializedOnce ==
    [][\A t \in Threads :
            (thread[t].pc = "store" /\ thread'[t].pc = "outside")
                => /\ ENABLED_cell' = encode(thread[t].enabled)
                   /\ ENABLED_cell' \in {1, 2}
                   /\ ENABLED_cell # 0 => ENABLED_cell' = ENABLED_cell]_vars

C20_Witness ==
    /\ ENABLED_cell = 0
    /\ \A t \in Threads : thread[t].pc = "store"

\* what the environment resolves to at this moment
EnvSaysEnabled ==
    \/ LibSet /\ env["RUST_LIB_BACKTRACE"].val # "0"
    \/ ~LibSet /\ BtSet /\ env["RUST_BACKTRACE"].val # "0"

\* C21: once a call of backtrace_enabled has completed, every call that
\* starts afterwards returns the value held by the cell at once, without
\* reading the environment, whatever the environment has become.
C21_CachedAfterFirstCall ==
    [][\A t \in Threads :
            ((\E u \in Threads : thread[u].result.some)
                /\ thread[t].pc = "outside" /\ thread'[t].calls # thread[t].calls)
            => /\ ENABLED_cell # 0
               /\ thread'[t].pc = "outside"
               /\ thread'[t].result = Some(ENABLED_cell = 2)]_vars

C21_Witness ==
    /\ thread[1].pc = "outside" /\ thread[1].calls = MaxCalls
    /\ thread[2].calls = 0
    /\ thread[1].result.some
    /\ thread[1].result.val # EnvSaysEnabled

\* C22: for every slice s and length N, the conversion of s to an array of
\* length N succeeds iff len(s) = N, and then the array holds the elements
\* of s in their order; otherwise it fails with the message `expected slice
\* of length <N>, got length <len(s)>: <preview of s>`.
C22_SliceToArray ==
    (pc = "done" /\ call.op = "cfrom")
    => /\ ret.ok <=> Len(a) = call.n
       /\ ret.ok => ret.val = a
       /\ ~ret.ok =>
            /\ StartsWith(ret.msg,
                    "expected slice of length " \o ToString(call.n)
                        \o ", got length " \o ToString(Len(a)) \o ": [")
            /\ Len(a) = 5 /\ call.n = 3 /\ a[1] = 1
                => ret.msg = "expected slice of length 3, got length 5: [1, 2, 3, 4, 5]"

C22_Witness ==
    /\ pc = "done" /\ call.op = "cfrom"
    /\ call.src = "&[T]" /\ call.dst = "&[T; N]"
    /\ Len(a) = 5 /\ call.n = 3 /\ ~ret.ok

\* what a preview must show of the slice a: all of it up to 32 elements,
\* the first 16 and the last 16 around a marker beyond
PreviewEntry(i) ==
    IF Len(a) <= 32 THEN ToString(a[i])
    ELSE IF i <= 16 THEN ToString(a[i])
    ELSE IF i = 17 THEN "\"...\""
    ELSE ToString(a[Len(a) - 33 + i])

RECURSIVE PreviewFrom(_, _)
PreviewFrom(i, last) ==
    IF i > last THEN ""
    ELSE IF i = last THEN PreviewEntry(i)
    ELSE PreviewEntry(i) \o ", " \o PreviewFrom(i + 1, last)

\* C23: the preview of a slice in an error message shows a slice of at most
\* 32 elements in full, and of a longer one the first 16 elements, a `...`
\* marker and the last 16 elements: never more than 33 entries, the
\* elements in their order.
C23_SlicePreview ==
    (pc = "done" /\ call.op = "cfrom" /\ ~ret.ok)
    => ret.msg = "expected slice of length " \o ToString(call.n)
                    \o ", got length " \o ToString(Len(a)) \o ": ["
                    \o PreviewFrom(1, IF Len(a) <= 32 THEN Len(a) ELSE 33)
                    \o "]"

C23_Witness ==
    /\ pc = "done" /\ call.op = "cfrom" /\ ~ret.ok
    /\ Len(a) = 33 /\ a[1] = 1 /\ call.n = 32
    /\ call.rel = "len_checked"

\* the calls that return a plain value, not a Result
Infallible == {"saturating_from", "saturating_into", "saturating_into_type"}

\* C24: every call of a checked operation or a checked conversion returns,
\* and returns Ok or Err: no call panics - the unwrap() of the array
\* conversions is reached only with a length equal to N, and division,
\* remainder, logarithm and shift on invalid operands return Err.
C24_FailuresAreValues ==
    pc = "done" =>
        /\ "panic" \notin DOMAIN ret
        /\ call.op \notin Infallible =>
            /\ "ok" \in DOMAIN ret
            /\ ret.ok => "val" \in DOMAIN ret
            /\ ~ret.ok => "msg" \in DOMAIN ret
        /\ (call.op = "cfrom" /\ call.rel = "len_checked")
            => (ret.ok <=> Len(a) = call.n)

C24_Witness ==
    /\ pc = "done" /\ call.op = "cfrom" /\ call.rel = "len_checked"
    /\ call.src = "Vec<T>" /\ call.dst = "Box<[T; N]>"
    /\ Len(a) = 4 /\ call.n = 3 /\ ~ret.ok

\* C25: for every implemented pair, NonZero<B>::cfrom of a NonZero<A>
\* succeeds iff the value it wraps lies in the range of B, and
\* NonZero<T>::cfrom of a T succeeds iff the value is not 0; a success
\* returns a NonZero of the same value, never of 0.
C25_NonZeroConversions ==
    (pc = "done" /\ call.op = "cfrom" /\ call.dst \in NonZeroKinds)
    => /\ call.src \in NonZeroKinds
            => /\ <<get(call.src), get(call.dst)>> \in nonzero_int_cfrom_nonzero_int
               /\ ret.ok <=> InRange(a, get(call.dst))
       /\ call.src \in Kinds
            => /\ call.dst = NonZero(call.src)
               /\ ret.ok <=> a # 0
       /\ ret.ok => (ret.val = a /\ ret.val # 0)

C25_Witness ==
    /\ pc = "done" /\ call.op = "cfrom"
    /\ call.src = "NonZero<u16>" /\ call.dst = "NonZero<u8>"
    /\ a = MAX("u8") + 1 /\ ~ret.ok

\* C26: on a signed integer type T, cabs(a) fails iff a = T::MIN, with
\* the message "overflow: abs(<a>)", and otherwise returns |a|; cneg(a)
\* fails iff a = T::MIN, with the message "overflow: -<a>", and otherwise
\* returns -a.
C26_SignedAbsAndNeg ==
    (pc = "done" /\ call.op \in {"cabs", "cneg"} /\ call.src \in SignedKinds)
    => /\ ret.ok <=> a # MIN(call.src)
       /\ call.op = "cabs" =>
            /\ ret.ok => ret.val = Abs(a)
            /\ ~ret.ok => ret.msg = "overflow: abs(" \o ToString(a) \o ")"
       /\ call.op = "cneg" =>
            /\ ret.ok => ret.val = -a
            /\ ~ret.ok => ret.msg = "overflow: -" \o ToString(a)

C26_Witness ==
    /\ pc = "done" /\ call.op = "cabs" /\ call.src = "i16"
    /\ a = MIN("i16") /\ ~ret.ok
    /\ ret.msg = "overflow: abs(" \o ToString(MIN("i16")) \o ")"

\* the conversions that fail with an error, and the ones that saturate
CheckedConversions == {"cfrom", "cinto", "cinto_type"}

SaturatingConversions ==
    {"saturating_from", "saturating_into", "saturating_into_type"}

\* C27: under each pointer width, every pair impl_cfrom_unbounded is
\* instantiated for (directly or through rev!) has a source whose every
\* value is representable in the target, so that the `u as Self` cast of
\* cfrom and of saturating_from never changes the value.
C27_UnboundedIsLossless ==
    \* the table of the build, looked at before the call
    /\ pc = "ready" =>
        \A p \in Impls("unbounded") :
            /\ MIN(p[2]) <= MIN(p[1]) /\ MAX(p[1]) <= MAX(p[2])
            /\ as_cast(MIN(p[1]), p[2]) = MIN(p[1])
            /\ as_cast(MAX(p[1]), p[2]) = MAX(p[1])
    /\ (pc = "done" /\ call.op \in CheckedConversions \cup SaturatingConversions
            /\ call.rel = "unbounded")
        => /\ ret.val = a
           /\ call.op \in CheckedConversions => ret.ok

C27_Witness ==
    /\ pc = "done" /\ call.op = "cfrom" /\ call.rel = "unbounded"
    /\ ptr_width = 16 /\ call.src = "usize" /\ call.dst = "u16"
    /\ a = MAX("usize") /\ ret = Ok(MAX("u16"))

\* C28: under each pointer width, for every pair of impl_cfrom_upper_bounded
\* and impl_cfrom_both_bounded the target's MAX (and, both-bounded, MIN)
\* cast into the source type with `as` keeps its value; for every pair of
\* impl_cfrom_lower_bounded the target is unsigned with MAX_target >=
\* MAX_source, so that the 0 of saturation is the target's MIN; the
\* comparisons made in the source type decide exactly the range test.
C28_BoundsCastExactly ==
    \* the tables of the build, looked at before the call
    /\ pc = "ready" =>
        /\ \A p \in Impls("upper_bounded") \cup Impls("both_bounded") :
            as_cast(MAX(p[2]), p[1]) = MAX(p[2])
        /\ \A p \in Impls("both_bounded") :
            as_cast(MIN(p[2]), p[1]) = MIN(p[2])
        /\ \A p \in Impls("lower_bounded") :
            ~Signed(p[2]) /\ MAX(p[2]) >= MAX(p[1]) /\ MIN(p[2]) = 0
    /\ (pc = "done" /\ call.op \in CheckedConversions
            /\ call.rel \in {"upper_bounded", "lower_bounded", "both_bounded"})
        => /\ ret.ok <=> InRange(a, call.dst)
           /\ ret.ok => ret.val = a
    /\ (pc = "done" /\ call.op \in SaturatingConversions
            /\ call.rel \in {"upper_bounded", "lower_bounded", "both_bounded"})
        => ret.val = Clamp(a, call.dst)

C28_Witness ==
    /\ pc = "done" /\ call.op = "saturating_from"
    /\ call.rel = "lower_bounded" /\ ptr_width = 64
    /\ call.src = "isize" /\ call.dst = "u64"
    /\ a = MIN("isize") /\ ret.val = 0

\* the least multiple of y that is not below x, for x >= 0 and y > 0
NextMultiple(x, y) == IF x % y = 0 THEN x ELSE x + (y - (x % y))

\* C29: on unsigned integer operands, and on a Duration divided by a u32,
\* cdiv, cdiv_euclid, crem and crem_euclid fail iff the second operand is
\* 0, and every such failure carries the `division by zero:` message, none
\* the `overflow:` one; cnext_multiple_of fails with `multiplier is zero:`
\* iff b = 0, and with `overflow:` only when b # 0 and the next multiple
\* exceeds the MAX of the type.
C29_UnsignedDivisionFailures ==
    /\ (pc = "done" /\ call.op \in DivFamily
            /\ call.src \in Unsigned \cup {"Duration"})
        => /\ ret.ok <=> b # 0
           /\ ~ret.ok =>
                /\ StartsWith(ret.msg, "division by zero:")
                /\ ~StartsWith(ret.msg, "overflow:")
    /\ (pc = "done" /\ call.op = "cnext_multiple_of")
        => /\ (~ret.ok /\ StartsWith(ret.msg, "multiplier is zero:")) <=> b = 0
           /\ (~ret.ok /\ StartsWith(ret.msg, "overflow:"))
                => (b # 0 /\ NextMultiple(a, b) > MAX(call.src))
           /\ ~ret.ok => \/ StartsWith(ret.msg, "multiplier is zero:")
                         \/ StartsWith(ret.msg, "overflow:")

C29_Witness ==
    /\ pc = "done" /\ call.op = "cdiv" /\ call.src = "Duration"
    /\ a = 7 /\ b = 0
    /\ ret = Err("division by zero: 7ns / 0")

\* the low w bits of v, read as a two's complement number when signed
LowBits(v, w, signed) ==
    LET low == v % (2 ^ w)
    IN  IF signed /\ low >= 2 ^ (w - 1) THEN low - 2 ^ w ELSE low

\* x^e, or a value beyond lim in magnitude once a power of x exceeds lim
RECURSIVE PowUpTo(_, _, _)
PowUpTo(x, e, lim) ==
    IF e = 0 THEN 1
    ELSE LET p == PowUpTo(x, e - 1, lim)
         IN  IF Abs(p) > lim THEN p ELSE p * x

\* x^e where it lies in the range of k; NoValue where it does not
ExactPow(k, x, e) ==
    LET p == CASE e = 0 -> 1
               [] e > 0 /\ x \in {0, 1} -> x
               [] e > 0 /\ x = -1 -> IF e % 2 = 0 THEN 1 ELSE -1
               [] e > Bits(k) /\ Abs(x) >= 2 -> 2 ^ Bits(k)
               [] OTHER -> PowUpTo(x, e, 2 ^ Bits(k))
    IN  IF InRange(p, k) THEN Value(p) ELSE NoValue

\* C30: cshl does not detect an overflow of the value: on an integer type
\* of w bits, for every a and every b < w, cshl(a, b) is Ok with the low w
\* bits of a * 2^b read in the type, the bits shifted out being dropped;
\* cpow(a, b) and cmul(a, b) are Ok iff the exact result lies in the range
\* of the type, and then return it.
C30_ShiftDropsBits ==
    /\ (pc = "done" /\ call.op = "cshl" /\ b < Bits(call.src))
        => ret = Ok(LowBits(a * 2 ^ b, Bits(call.src), Signed(call.src)))
    /\ (pc = "done" /\ call.op = "cmul" /\ call.src \in Kinds)
        => /\ ret.ok <=> InRange(a * b, call.src)
           /\ ret.ok => ret.val = a * b
    /\ (pc = "done" /\ call.op = "cpow")
        => /\ ret.ok <=> ExactPow(call.src, a, b) # NoValue
           /\ ret.ok => Value(ret.val) = ExactPow(call.src, a, b)

C30_Witness ==
    /\ pc = "done" /\ call.op = "cshl" /\ call.src = "i8"
    /\ a = MAX("i8") /\ b = 1
    /\ ~InRange(a * 2 ^ b, "i8") /\ ret = Ok(-2)

=============================================================================
